---- MODULE Spec2Model ----
(***************************************************************************)
(* Genre Enrichment Service of spotifydata (src/spotify_api.py): the       *)
(* persisted genre cache and token cache, the client-credentials token     *)
(* request, the batched track/artist lookups with their 429 retry and      *)
(* inter-batch delay, and the enrich orchestration.                        *)
(*                                                                         *)
(* The program is single-threaded.  Every network request is a step of     *)
(* its own; the code between two requests is one step.  The remote API     *)
(* and the file system are the environment: each response and each read    *)
(* outcome is drawn from a small set.                                      *)
(***************************************************************************)
EXTENDS Integers, Sequences, FiniteSets, TLC

(***************************************************************************)
(* Program constants.                                                      *)
(***************************************************************************)
\* range(0, len(unique_ids), 50) / unique_ids[i:i + 50]
BATCH_SIZE == 50
\* response.headers.get("Retry-After", 5), seconds
DEFAULT_RETRY_AFTER == 5
\* time.sleep(0.1) between batches, in milliseconds
BATCH_DELAY_MS == 100
\* timedelta(seconds=expires_in - 60)
TOKEN_MARGIN == 60
\* data.get("expires_in", 3600)
DEFAULT_EXPIRES_IN == 3600
\* fetch_track_artists(track_ids[:1000], token)
TRACK_LIMIT == 1000

(***************************************************************************)
(* Bounds of the model.                                                    *)
(***************************************************************************)
\* largest number of distinct identifiers handed directly to a fetch function
MaxIds == 101
\* largest number of duplicated, and of empty, identifiers added to such a list
MaxDups == 1
\* the clock stops here, in seconds after the start
MaxTime == 4
\* the dataset clock stops after this many half time-to-lives
MaxHalfTtls == 3
\* most rows of an event table, records of the first export file, items of a
\* playlist, and the largest limit of a top-N query
MaxRows == 3
MaxRecords == 2
MaxItems == 2
MaxLimit == 2
MaxQuery == 1
MaxPlays == 2
MaxOver == 1

(***************************************************************************)
(* Values.                                                                 *)
(***************************************************************************)
\* Python None for a token / an absent header or field
NoneTok == "<none>"
Absent == -1

\* a dict is a function; {} is the function with the empty domain
EmptyDict == [k \in {} |-> <<>>]

\* dict.update(other)
DictUpdate(d, other) ==
    [k \in (DOMAIN d) \cup (DOMAIN other) |->
        IF k \in DOMAIN other THEN other[k] ELSE d[k]]

\* an insertion-ordered dict whose iteration order matters is a sequence of
\* [id, val] entries
OrdKeys(od) == {od[j].id : j \in 1..Len(od)}

Min(a, b) == IF a < b THEN a ELSE b

\* ceil(n / d) for n >= 0, d > 0
CeilDiv(n, d) == (n + d - 1) \div d

\* the elements of a finite set of integers in ascending order
SortedSeq(S) ==
    IF S = {} THEN <<>>
    ELSE LET lo == CHOOSE x \in S : \A y \in S : x <= y
             hi == CHOOSE x \in S : \A y \in S : y <= x
         IN  SelectSeq([k \in 1..(hi - lo + 1) |-> lo + k - 1], LAMBDA x : x \in S)

Reverse(s) == [j \in 1..Len(s) |-> s[Len(s) + 1 - j]]

(***************************************************************************)
(* The state.                                                              *)
(***************************************************************************)
VARIABLES
    \* environment of the process
    REQUESTS_AVAILABLE, \* the import of requests succeeded
    client_id,          \* SPOTIFY_CLIENT_ID is set and non-empty
    client_secret,      \* SPOTIFY_CLIENT_SECRET is set and non-empty
    now,                \* datetime.now(), seconds
    hashOrder,          \* iteration order of a set in this process
    \* the two cache files
    genreFile,          \* GENRE_CACHE_FILE
    tokenFile,          \* TOKEN_CACHE_FILE
    \* control
    pc,                 \* position of the running call, "idle" between calls
    op,                 \* the top-level call running or last completed
    caller,             \* where the running callee returns to
    \* enrich_with_genres
    cache, force_refresh, streaming_df, track_artists, ret_cache,
    \* get_access_token (its result) and the token argument of the fetches
    token,
    \* fetch_artists_genres / fetch_track_artists
    f_kind, ids_arg, unique_ids, i, results, retry_after,
    \* what the running call did so far: requests, sleeps, file writes
    log,
    \* the cache as loaded, and the two files when the running call began
    loaded, file0, tokenFile0,
    \* the running enrich call repeats the previous one; what that one left
    again, prev,
    \* the export directory: Streaming_History_Audio_*.json and Playlist1.json
    exportFiles, playlistFile,
    \* functools.lru_cache(maxsize=1) of load_all_data, load_playlists and
    \* get_all_playlist_tracks; st.cache_data(ttl=3600) of get_data
    lru_all_data, lru_playlists, lru_playlist_tracks, st_data,
    \* the event table handed to the query functions
    stats_df,
    \* the last data operation ("env" once the files or the clock changed
    \* after it): its name, its result, the st.cache_data entry it found
    \* ("live", "expired", "absent"), whether it read the export files
    d_op, d_ret, d_entry, d_read

vars == <<REQUESTS_AVAILABLE, client_id, client_secret, now, hashOrder,
          genreFile, tokenFile, pc, op, caller,
          cache, force_refresh, streaming_df, track_artists, ret_cache,
          token, f_kind, ids_arg, unique_ids, i, results, retry_after,
          log, loaded, file0, tokenFile0, again, prev,
          exportFiles, playlistFile, lru_all_data, lru_playlists,
          lru_playlist_tracks, st_data, stats_df, d_op, d_ret, d_entry, d_read>>

dataVars == <<exportFiles, playlistFile, lru_all_data, lru_playlists,
              lru_playlist_tracks, st_data, stats_df, d_op, d_ret, d_entry, d_read>>

envVars == <<REQUESTS_AVAILABLE, client_id, client_secret, now, hashOrder>>
enrichVars == <<cache, force_refresh, streaming_df, track_artists, ret_cache>>
fetchVars == <<f_kind, ids_arg, unique_ids, i, results, retry_after>>
histVars == <<loaded, file0, tokenFile0, again, prev>>

(***************************************************************************)
(* The remote API (environment).                                           *)
(***************************************************************************)
\* a response, or the exception requests raised instead of one
Resp(exc, status, ra, body, tok, expires_in) ==
    [exc |-> exc, status |-> status, retry_after |-> ra, body |-> body,
     token |-> tok, expires_in |-> expires_in]

NoResp == Resp(FALSE, 0, Absent, "", NoneTok, Absent)
\* timeout or connection error
ExcResp == Resp(TRUE, 0, Absent, "", NoneTok, Absent)
HttpError(status) == Resp(FALSE, status, Absent, "", NoneTok, Absent)
Http429(ra) == Resp(FALSE, 429, ra, "", NoneTok, Absent)
Http200(body) == Resp(FALSE, 200, Absent, body, NoneTok, Absent)
TokenOk(tok, expires_in) == Resp(FALSE, 200, Absent, "token", tok, expires_in)

\* bodies of a 200 batch response: an entry for every requested id; the same
\* with a null first entry; the same with a last entry that lacks its "id";
\* a body that is no JSON
BatchResponses ==
    {ExcResp, HttpError(500), Http429(Absent), Http429(2),
     Http200("full"), Http200("null_entry"), Http200("bad_entry"),
     Http200("not_json")}

\* the batch responses explored inside an enrich call
EnrichBatchResponses ==
    {Http429(Absent), Http200("full")}

\* a token with the default lifetime, with one shorter than the margin, or
\* with one that outlasts the margin by two seconds
TokenResponses ==
    {ExcResp, HttpError(401), Http200("no_token"),
     TokenOk("t1", Absent), TokenOk("t1", 30), TokenOk("t2", TOKEN_MARGIN + 2)}

\* the token responses explored inside an enrich call
EnrichTokenResponses ==
    {ExcResp, TokenOk("t1", Absent), TokenOk("t1", 30)}

\* the catalog: artists of a track, name and genres of an artist
TrackArtistIds(t) ==
    IF t = 2 THEN <<2, 3>> ELSE IF t >= 3 THEN <<t + 1>> ELSE <<t>>

ArtistNameOf(a) ==
    IF a = 1 THEN "A" ELSE IF a \in {2, 3} THEN "B" ELSE IF a = 4 THEN "" ELSE "C"

ArtistGenresOf(a) == IF a % 2 = 1 THEN <<"rock">> ELSE <<"pop">>

TrackArtistsOf(t) ==
    [j \in 1..Len(TrackArtistIds(t)) |->
        [id |-> TrackArtistIds(t)[j], name |-> ArtistNameOf(TrackArtistIds(t)[j])]]

(***************************************************************************)
(* What a call did: the log.                                               *)
(***************************************************************************)
Event(o, kind, batch, attempt, size, ms, r) ==
    [op |-> o, kind |-> kind, batch |-> batch, attempt |-> attempt,
     size |-> size, ms |-> ms, resp |-> r]

PostEvent(r) == Event("post", "token", 0, 1, 0, 0, r)
GetEvent(kind, batch, attempt, size, r) == Event("get", kind, batch, attempt, size, 0, r)
SleepEvent(ms) == Event("sleep", "", 0, 0, 0, ms, NoResp)
WriteEvent(file) == Event("write", file, 0, 0, 0, 0, NoResp)
\* reading the file raised IOError
ReadErrorEvent(file) == Event("ioerror", file, 0, 0, 0, 0, NoResp)
\* an exception left the running call
RaiseEvent(exc) == Event("raise", exc, 0, 0, 0, 0, NoResp)

NoPrev == [valid |-> FALSE, file |-> [kind |-> "absent", data |-> EmptyDict],
           ret |-> EmptyDict, log |-> <<>>]

\* a repeated call gets the response the previous call got to the same request
SameAsBefore(o, kind, batch, attempt, r) ==
    again =>
        \A j \in 1..Len(prev.log) :
            (/\ prev.log[j].op = o
             /\ prev.log[j].kind = kind
             /\ prev.log[j].batch = batch
             /\ prev.log[j].attempt = attempt) => prev.log[j].resp = r

(***************************************************************************)
(* The cache files.                                                        *)
(***************************************************************************)
AbsentFile == [kind |-> "absent", data |-> EmptyDict]
CorruptFile == [kind |-> "corrupt", data |-> EmptyDict]
\* json.dump of a dict of string keys and lists of strings
JsonDict(d) == [kind |-> "json_dict", data |-> d]

\* load_genre_cache; ioerr: open() or read() raises IOError
load_genre_cache(file, ioerr) ==
    IF file.kind = "absent" THEN EmptyDict
    ELSE IF ioerr \/ file.kind = "corrupt" THEN EmptyDict
    ELSE file.data

\* save_genre_cache
save_genre_cache(c) == JsonDict(c)

AbsentToken == [kind |-> "absent", access_token |-> NoneTok, expires_at |-> 0]
\* content that json.load rejects
CorruptToken == [kind |-> "corrupt", access_token |-> NoneTok, expires_at |-> 0]
\* json.dump of {"access_token": tok, "expires_at": expires_at.isoformat()}.
\* datetime.isoformat() and datetime.fromisoformat() are exact inverses on
\* naive datetimes, so the file keeps the instant itself, in seconds.
TokenRecord(tok, expires_at) ==
    [kind |-> "record", access_token |-> tok, expires_at |-> expires_at]
\* valid JSON that is not an object, such as []
ListToken == [kind |-> "list", access_token |-> NoneTok, expires_at |-> 0]
\* an object whose "expires_at" is a string fromisoformat() rejects
BadDateToken(tok) == [kind |-> "bad_date", access_token |-> tok, expires_at |-> 0]
\* an object without "expires_at"
NoDateToken(tok) == [kind |-> "no_date", access_token |-> tok, expires_at |-> 0]
\* an object with a good "expires_at" and no "access_token"
NoAccessToken(expires_at) == TokenRecord(NoneTok, expires_at)

\* data.get("expires_at", "2000-01-01"): an instant long before the first
\* run of the program, whose clock the model starts at 0
DEFAULT_EXPIRES_AT == 0 - 1000000

\* mutant: the comparison is the wrong way round
NotExpiredInverted(expires_at, t) == expires_at < t

\* datetime.now() < expires_at
NotExpired(expires_at, t) == t < expires_at

\* mutant: a record is returned whatever its expires_at
load_token_cache_ignoring_expiry(file, t, ioerr) ==
    IF file.kind = "record" /\ ~ioerr
    THEN [found |-> TRUE, access_token |-> file.access_token, raises |-> ""]
    ELSE [found |-> FALSE, access_token |-> NoneTok, raises |-> ""]

\* _load_token_cache: the record, or None, or the exception that escapes it
load_token_cache(file, t, ioerr) ==
    IF file.kind = "absent"
    THEN [found |-> FALSE, access_token |-> NoneTok, raises |-> ""]
    ELSE IF ioerr \/ file.kind = "corrupt"
    THEN [found |-> FALSE, access_token |-> NoneTok, raises |-> ""]
    ELSE IF file.kind = "list"
    THEN [found |-> FALSE, access_token |-> NoneTok, raises |-> "AttributeError"]
    ELSE IF file.kind = "bad_date"
    THEN [found |-> FALSE, access_token |-> NoneTok, raises |-> ""]
    ELSE IF file.kind = "no_date"
    THEN [found |-> NotExpired(DEFAULT_EXPIRES_AT, t),
          access_token |-> file.access_token, raises |-> ""]
    ELSE IF NotExpired(file.expires_at, t)
         THEN [found |-> TRUE, access_token |-> file.access_token, raises |-> ""]
         ELSE [found |-> FALSE, access_token |-> NoneTok, raises |-> ""]

\* mutant: the safety margin is not subtracted
save_token_cache_no_margin(tok, expires_in, t) == TokenRecord(tok, t + expires_in)

\* _save_token_cache
save_token_cache(tok, expires_in, t) == TokenRecord(tok, t + expires_in - TOKEN_MARGIN)

\* is_api_available
is_api_available == REQUESTS_AVAILABLE /\ client_id /\ client_secret

\* truth value of a token: None and "" are false
Truthy(tok) == tok \notin {NoneTok, ""}

(***************************************************************************)
(* Streaming tables: the spotify_track_uri column.                         *)
(* A URI string is its first two colon-separated parts and the parts       *)
(* after them; an identifier is a positive number, 0 is the empty string.  *)
(***************************************************************************)
Uri(head, tail) == [na |-> FALSE, head |-> head, tail |-> tail]
\* NaN / None in the column
NaUri == [na |-> TRUE, head |-> <<>>, tail |-> <<>>]
TrackUri(t) == Uri(<<"spotify", "track">>, <<t>>)

\* extract_track_id; 0 stands for None as well as for "": both are dropped
\* by the caller's `if tid`
extract_track_id(uri) ==
    IF uri.na THEN 0
    ELSE IF uri.head = <<"spotify", "track">> /\ Len(uri.tail) >= 1
         THEN uri.tail[Len(uri.tail)]
         ELSE 0

\* Series.dropna().unique(): first occurrences, in order
DropNaUnique(col, seen) ==
    LET first(j) == /\ ~col[j].na
                    /\ col[j] \notin seen
                    /\ \A k \in 1..(j - 1) : col[k] # col[j]
        kept == SelectSeq([j \in 1..Len(col) |-> j], first)
    IN  [k \in 1..Len(kept) |-> col[kept[k]]]

\* [x for x in ids if x]
FilterTruthy(ids) == SelectSeq(ids, LAMBDA x : x # 0)

\* the track_ids of lines 292-294
TrackIdsOf(col) ==
    LET track_uris == DropNaUnique(col, {})
    IN  FilterTruthy([j \in 1..Len(track_uris) |-> extract_track_id(track_uris[j])])

\* mutant: the slice ends one early
TakeShort(ids, n) == SubSeq(ids, 1, Min(n, Len(ids)) - 1)

\* ids[:n]
Take(ids, n) == SubSeq(ids, 1, Min(n, Len(ids)))

NoTable == [present |-> FALSE, uris |-> <<>>]
Table(col) == [present |-> TRUE, uris |-> col]

Tables ==
    {NoTable,
     Table(<<>>),
     Table(<<TrackUri(1), NaUri, TrackUri(2), TrackUri(1),
             Uri(<<"spotify", "episode">>, <<7>>), TrackUri(0), TrackUri(3)>>)}

(***************************************************************************)
(* Calls and returns.                                                      *)
(***************************************************************************)
\* where a callee's return leaves the program
ReturnTo(c) ==
    CASE c = "enrich" -> "after_token"
      [] c = "enrich_tracks" -> "after_tracks"
      [] c = "enrich_artists" -> "after_artists"
      [] OTHER -> "idle"

\* the locals of a function that is not running
NoEnrichFrame ==
    /\ cache = EmptyDict
    /\ force_refresh = FALSE
    /\ streaming_df = NoTable
    /\ track_artists = <<>>
    /\ ret_cache = EmptyDict

NoFetchFrame ==
    /\ f_kind = ""
    /\ ids_arg = <<>>
    /\ unique_ids = <<>>
    /\ i = 0
    /\ results = <<>>
    /\ retry_after = 0

\* a call begins: the locals of the functions that are not running are gone
DropEnrichFrame ==
    /\ cache' = EmptyDict
    /\ force_refresh' = FALSE
    /\ streaming_df' = NoTable
    /\ track_artists' = <<>>
    /\ ret_cache' = EmptyDict

DropFetchFrame ==
    /\ f_kind' = ""
    /\ ids_arg' = <<>>
    /\ unique_ids' = <<>>
    /\ i' = 0
    /\ results' = <<>>
    /\ retry_after' = 0

(***************************************************************************)
(* get_access_token.                                                       *)
(***************************************************************************)
\* a direct call of get_access_token
GetTokenCall ==
    /\ pc = "idle"
    /\ pc' = "get_token"
    /\ op' = "get_token"
    /\ caller' = "top"
    /\ log' = <<>>
    /\ token' = NoneTok
    /\ file0' = genreFile
    /\ tokenFile0' = tokenFile
    /\ loaded' = EmptyDict
    /\ again' = FALSE
    /\ prev' = NoPrev
    /\ DropEnrichFrame
    /\ DropFetchFrame
    /\ UNCHANGED <<dataVars, envVars, genreFile, tokenFile>>

\* lines 110-116: the availability check and the cached token.  An
\* exception raised here is caught nowhere: it ends the top-level call.
GetTokenEntry ==
    /\ pc = "get_token"
    /\ \E ioerr \in BOOLEAN :
        /\ ioerr => (is_api_available /\ tokenFile.kind # "absent")
        /\ LET cached == load_token_cache(tokenFile, now, ioerr)
           IN  IF ~is_api_available
               THEN /\ token' = NoneTok
                    /\ pc' = ReturnTo(caller)
                    /\ log' = log
               ELSE IF cached.raises # ""
               THEN /\ token' = NoneTok
                    /\ pc' = "idle"
                    /\ log' = Append(log, RaiseEvent(cached.raises))
               ELSE IF cached.found /\ cached.access_token = NoneTok
               THEN \* cached["access_token"]
                    /\ token' = NoneTok
                    /\ pc' = "idle"
                    /\ log' = Append(log, RaiseEvent("KeyError"))
               ELSE IF cached.found
               THEN /\ token' = cached.access_token
                    /\ pc' = ReturnTo(caller)
                    /\ log' = log
               ELSE /\ token' = NoneTok
                    /\ pc' = "token_post"
                    /\ log' = IF ioerr THEN Append(log, ReadErrorEvent("token"))
                                       ELSE log
    /\ UNCHANGED <<dataVars, envVars, genreFile, tokenFile, op, caller, enrichVars,
                   fetchVars, histVars>>

\* mutant: raise_for_status() is not called and the token is read with .get()
TokenRequestFailedOnlyOnException(r) == r.exc

\* the token request failed: no response, an error status, a body without
\* access_token
TokenRequestFailed(r) == r.exc \/ r.status >= 400 \/ r.body # "token"

\* data.get("expires_in", 3600)
ExpiresIn(r) == IF r.expires_in = Absent THEN DEFAULT_EXPIRES_IN ELSE r.expires_in

\* the responses explored for the token request
TokenResponsesFor(o) == IF o = "enrich" THEN EnrichTokenResponses ELSE TokenResponses

\* lines 118-137: the token request
TokenPost ==
    /\ pc = "token_post"
    /\ \E r \in TokenResponsesFor(op) :
        /\ SameAsBefore("post", "token", 0, 1, r)
        /\ IF TokenRequestFailed(r)
           THEN /\ token' = NoneTok
                /\ tokenFile' = tokenFile
                /\ log' = Append(log, PostEvent(r))
           ELSE /\ token' = r.token
                /\ tokenFile' = save_token_cache(r.token, ExpiresIn(r), now)
                /\ log' = Append(Append(log, PostEvent(r)), WriteEvent("token"))
    /\ pc' = ReturnTo(caller)
    /\ UNCHANGED <<dataVars, envVars, genreFile, op, caller, enrichVars, fetchVars, histVars>>

(***************************************************************************)
(* fetch_artists_genres / fetch_track_artists.                             *)
(***************************************************************************)
\* list(set(...)): the elements in the order this process iterates a set
SetOrder(S) == IF hashOrder = "asc" THEN SortedSeq(S) ELSE Reverse(SortedSeq(S))

\* list(set(x for x in ids if x))
Dedup(ids) == SetOrder({ids[j] : j \in 1..Len(ids)} \ {0})

\* if not ids or not token: return {}
NothingToFetch(ids, tok) == Len(ids) = 0 \/ ~Truthy(tok)

\* mutant: the slice is one too long
BatchOfOneMore(ids, k) == SubSeq(ids, k + 1, Min(k + BATCH_SIZE + 1, Len(ids)))

\* unique_ids[i:i + 50]
BatchOf(ids, k) == SubSeq(ids, k + 1, Min(k + BATCH_SIZE, Len(ids)))

\* the number of the batch that starts at index k
BatchNo(k) == (k \div BATCH_SIZE) + 1

\* mutant: no default when the header is absent
RetryAfterNoDefault(r) == IF r.retry_after = Absent THEN 0 ELSE r.retry_after

\* int(response.headers.get("Retry-After", 5))
RetryAfterOf(r) == IF r.retry_after = Absent THEN DEFAULT_RETRY_AFTER ELSE r.retry_after

\* time.sleep(retry_after), in milliseconds
RetrySleepMs(ra) == ra * 1000

\* what the response carries for one identifier
EntryValue(kind, id) == IF kind = "tracks" THEN TrackArtistsOf(id) ELSE ArtistGenresOf(id)

\* results[entry["id"]] = ... for the entries of ids, in order: a key that is
\* already there keeps its place and takes the new value, a new key is added
\* at the end (the identifiers of a batch are distinct)
StoreAll(res, kind, ids) ==
    LET sent == {ids[j] : j \in 1..Len(ids)}
        IsNew(x) == x \notin OrdKeys(res)
        fresh == SelectSeq(ids, IsNew)
    IN  [j \in 1..Len(res) |->
            IF res[j].id \in sent
            THEN [id |-> res[j].id, val |-> EntryValue(kind, res[j].id)]
            ELSE res[j]]
        \o [j \in 1..Len(fresh) |-> [id |-> fresh[j], val |-> EntryValue(kind, fresh[j])]]

\* the entries of a 200 body that the loop stores before it ends or raises
StoredIds(body, batch) ==
    CASE body = "full" -> batch
      [] body = "null_entry" -> Tail(batch)
      [] body = "bad_entry" -> SubSeq(batch, 1, Len(batch) - 1)
      [] OTHER -> <<>>

\* raise_for_status and the loop over the entries: ok is false when an
\* exception reached the except clause
Process(r, kind, batch, res) ==
    IF r.exc \/ r.status >= 400 \/ r.body = "not_json"
    THEN [ok |-> FALSE, results |-> res]
    ELSE [ok |-> r.body # "bad_entry",
          results |-> StoreAll(res, kind, StoredIds(r.body, batch))]

\* the delay after a batch: on the path that did not `continue`, and only
\* when another batch follows
DelayAfter(ok, k, n) == ok /\ k + BATCH_SIZE < n

\* the responses explored for a batch request: every kind for a list of up
\* to MaxIds identifiers, the successful one for a longer list
ResponsesFor(o) ==
    IF Len(unique_ids) > MaxIds THEN {Http200("full")}
    ELSE IF o = "enrich" THEN EnrichBatchResponses ELSE BatchResponses

\* lines 147-152 / 201-205
FetchEntry ==
    /\ pc = "fetch_entry"
    /\ results' = <<>>
    /\ IF NothingToFetch(ids_arg, token)
       THEN /\ pc' = ReturnTo(caller)
            /\ UNCHANGED <<unique_ids, i>>
       ELSE /\ unique_ids' = Dedup(ids_arg)
            /\ i' = 0
            /\ pc' = "batch"
    /\ UNCHANGED <<dataVars, envVars, genreFile, tokenFile, op, caller, enrichVars, token,
                   f_kind, ids_arg, retry_after, log, histVars>>

\* the rest of the loop body once the final response r of the batch is in
FinishBatch(r, logSoFar) ==
    LET p == Process(r, f_kind, BatchOf(unique_ids, i), results)
    IN  /\ results' = p.results
        /\ log' = IF DelayAfter(p.ok, i, Len(unique_ids))
                  THEN Append(logSoFar, SleepEvent(BATCH_DELAY_MS))
                  ELSE logSoFar
        /\ i' = i + BATCH_SIZE
        /\ pc' = "batch"

\* one iteration of the loop up to the end of the batch or to its 429
BatchRequest ==
    /\ pc = "batch"
    /\ i < Len(unique_ids)
    /\ IF ~REQUESTS_AVAILABLE
       THEN \* NameError inside the try: the batch is skipped
            /\ i' = i + BATCH_SIZE
            /\ pc' = "batch"
            /\ UNCHANGED <<results, log, retry_after>>
       ELSE \E r \in ResponsesFor(op) :
            /\ SameAsBefore("get", f_kind, BatchNo(i), 1, r)
            /\ LET sent == Append(log, GetEvent(f_kind, BatchNo(i), 1,
                                                Len(BatchOf(unique_ids, i)), r))
               IN  IF ~r.exc /\ r.status = 429
                   THEN /\ retry_after' = RetryAfterOf(r)
                        /\ pc' = "retry"
                        /\ log' = sent
                        /\ UNCHANGED <<results, i>>
                   ELSE /\ FinishBatch(r, sent)
                        /\ UNCHANGED retry_after
    /\ UNCHANGED <<dataVars, envVars, genreFile, tokenFile, op, caller, enrichVars, token,
                   f_kind, ids_arg, unique_ids, histVars>>

\* the sleep and the second request of a batch whose first response was 429
RetryBatch ==
    /\ pc = "retry"
    /\ \E r \in ResponsesFor(op) :
        /\ SameAsBefore("get", f_kind, BatchNo(i), 2, r)
        /\ FinishBatch(r,
              Append(Append(log, SleepEvent(RetrySleepMs(retry_after))),
                     GetEvent(f_kind, BatchNo(i), 2, Len(BatchOf(unique_ids, i)), r)))
    /\ UNCHANGED <<dataVars, envVars, genreFile, tokenFile, op, caller, enrichVars, token,
                   f_kind, ids_arg, unique_ids, retry_after, histVars>>

\* the loop is over: return results
FetchReturn ==
    /\ pc = "batch"
    /\ i >= Len(unique_ids)
    /\ pc' = ReturnTo(caller)
    /\ UNCHANGED <<dataVars, envVars, genreFile, tokenFile, op, caller, enrichVars, token,
                   fetchVars, log, histVars>>

(***************************************************************************)
(* enrich_with_genres.                                                     *)
(***************************************************************************)
\* mutant: the flag is read the wrong way round
UseCacheFlagInverted(c, fr) == DOMAIN c # {} /\ fr

\* if cache and not force_refresh: return cache
UseCache(c, fr) == DOMAIN c # {} /\ ~fr

\* mutant: the token is not checked
NoTokenUnchecked(tok) == FALSE

\* if not token: return cache
NoToken(tok) == ~Truthy(tok)

\* the artists of the tracks lo..hi, in the order the loops visit them
RECURSIVE ArtistsFrom(_, _, _)
ArtistsFrom(ta, lo, hi) ==
    IF lo > hi THEN <<>>
    ELSE IF lo = hi THEN ta[lo].val
    ELSE ArtistsFrom(ta, lo, (lo + hi) \div 2) \o ArtistsFrom(ta, (lo + hi) \div 2 + 1, hi)

\* the artists of all looked-up tracks, in the order the loops visit them
AllArtists(ta) == ArtistsFrom(ta, 1, Len(ta))

\* artist_ids
ArtistIdsOf(ta) ==
    UNION {{ta[j].val[k].id : k \in 1..Len(ta[j].val)} : j \in 1..Len(ta)}

\* artist_id_to_name[artist["id"]] = artist["name"] for the artists lo..hi
\* in order: a later assignment to a key replaces an earlier one
RECURSIVE NamesFrom(_, _, _)
NamesFrom(arts, lo, hi) ==
    IF lo > hi THEN EmptyDict
    ELSE IF lo = hi THEN arts[lo].id :> arts[lo].name
    ELSE DictUpdate(NamesFrom(arts, lo, (lo + hi) \div 2),
                    NamesFrom(arts, (lo + hi) \div 2 + 1, hi))

\* artist_id_to_name
NameMap(arts, m) == DictUpdate(m, NamesFrom(arts, 1, Len(arts)))

\* result[name] = genres for the entries lo..hi of artist_genres whose
\* artist has a name, in order
RECURSIVE ResultFrom(_, _, _, _)
ResultFrom(ag, names, lo, hi) ==
    IF lo > hi THEN EmptyDict
    ELSE IF lo = hi
    THEN IF ag[lo].id \in DOMAIN names /\ names[ag[lo].id] # ""
         THEN names[ag[lo].id] :> ag[lo].val
         ELSE EmptyDict
    ELSE DictUpdate(ResultFrom(ag, names, lo, (lo + hi) \div 2),
                    ResultFrom(ag, names, (lo + hi) \div 2 + 1, hi))

\* lines 313-317: result[name] = genres for every artist with a name
BuildResult(ag, names, result) ==
    DictUpdate(result, ResultFrom(ag, names, 1, Len(ag)))


\* mutant: the cache is replaced by the new mapping instead of updated
MergeReplacing(c, result) == result

\* cache.update(result)
MergeInto(c, result) == DictUpdate(c, result)

\* lines 271-282: load the cache; use it, or find the API unavailable, or go
\* on to the token.  rep: the call repeats the previous enrich call
EnrichBegin(fr, df, ioerr, rep) ==
    /\ pc = "idle"
    /\ ioerr => genreFile.kind # "absent"
    /\ LET c == load_genre_cache(genreFile, ioerr)
       IN  /\ cache' = c
           /\ loaded' = c
           /\ IF UseCache(c, fr) \/ ~is_api_available
              THEN /\ ret_cache' = c
                   /\ pc' = "idle"
              ELSE /\ ret_cache' = EmptyDict
                   /\ pc' = "get_token"
    /\ op' = "enrich"
    /\ caller' = "enrich"
    /\ force_refresh' = fr
    /\ streaming_df' = df
    /\ track_artists' = <<>>
    /\ token' = NoneTok
    /\ log' = IF ioerr THEN <<ReadErrorEvent("genre")>> ELSE <<>>
    /\ file0' = genreFile
    /\ tokenFile0' = tokenFile
    /\ again' = rep
    /\ prev' = IF rep
               THEN [valid |-> TRUE, file |-> genreFile, ret |-> ret_cache, log |-> log]
               ELSE NoPrev
    /\ DropFetchFrame
    /\ UNCHANGED <<dataVars, envVars, genreFile, tokenFile>>

\* a call of enrich_with_genres
Enrich ==
    \E fr \in BOOLEAN, df \in Tables, ioerr \in BOOLEAN :
        EnrichBegin(fr, df, ioerr, FALSE)

\* the same call once more, right after it returned
EnrichAgain ==
    /\ op = "enrich"
    /\ ~again
    /\ \E ioerr \in BOOLEAN : EnrichBegin(force_refresh, streaming_df, ioerr, TRUE)

\* lines 284-298: no token, no table, or the track lookup
EnrichAfterToken ==
    /\ pc = "after_token"
    /\ IF NoToken(token) \/ ~streaming_df.present
       THEN /\ ret_cache' = cache
            /\ pc' = "idle"
            /\ UNCHANGED <<caller, fetchVars>>
       ELSE /\ ids_arg' = Take(TrackIdsOf(streaming_df.uris), TRACK_LIMIT)
            /\ f_kind' = "tracks"
            /\ caller' = "enrich_tracks"
            /\ pc' = "fetch_entry"
            /\ UNCHANGED <<ret_cache, unique_ids, i, results, retry_after>>
    /\ UNCHANGED <<dataVars, envVars, genreFile, tokenFile, op, cache, force_refresh,
                   streaming_df, track_artists, token, log, histVars>>

\* lines 300-310: the artist ids of the tracks, and the genre lookup
EnrichAfterTracks ==
    /\ pc = "after_tracks"
    /\ track_artists' = results
    /\ ids_arg' = SetOrder(ArtistIdsOf(results))
    /\ f_kind' = "artists"
    /\ caller' = "enrich_artists"
    /\ pc' = "fetch_entry"
    /\ UNCHANGED <<dataVars, envVars, genreFile, tokenFile, op, cache, force_refresh,
                   streaming_df, ret_cache, token, unique_ids, i, results,
                   retry_after, log, histVars>>

\* lines 312-324: build the mapping, merge it, save, return
EnrichAfterArtists ==
    /\ pc = "after_artists"
    /\ LET result == BuildResult(results, NameMap(AllArtists(track_artists), EmptyDict),
                                 EmptyDict)
           merged == MergeInto(cache, result)
       IN  /\ cache' = merged
           /\ genreFile' = save_genre_cache(merged)
           /\ ret_cache' = merged
    /\ log' = Append(log, WriteEvent("genre"))
    /\ pc' = "idle"
    /\ UNCHANGED <<dataVars, envVars, tokenFile, op, caller, force_refresh, streaming_df,
                   track_artists, token, fetchVars, histVars>>

(***************************************************************************)
(* The export files and their loaders (src/data_loader.py).                *)
(***************************************************************************)
\* JSON null, pandas NaN / None
Null == "<null>"

\* one record of a Streaming_History_Audio_*.json file; ts is the parsed
\* timestamp, id tells records apart
RawEvent(id, year, dow, hour, ms, track, artist, album, episode, audiobook) ==
    [id |-> id, ts |-> [year |-> year, day_of_week |-> dow, hour |-> hour],
     ms_played |-> ms, track |-> track, artist |-> artist, album |-> album,
     episode_name |-> episode, audiobook_title |-> audiobook]

\* the columns preprocess_data adds and renames
Row(r) ==
    [id |-> r.id, ts |-> r.ts, year |-> r.ts.year, hour |-> r.ts.hour,
     day_of_week |-> r.ts.day_of_week, ms_played |-> r.ms_played,
     minutes_played |-> r.ms_played \div 60000, track |-> r.track, artist |-> r.artist, album |-> r.album,
     episode_name |-> r.episode_name, audiobook_title |-> r.audiobook_title]

Map(f(_), s) == [j \in 1..Len(s) |-> f(s[j])]

\* mutant: only the track column is looked at
HasTrackOnly(r) == r.track # Null

\* track.notna() & episode_name.isna() & audiobook_title.isna()
IsMusic(r) == r.track # Null /\ r.episode_name = Null /\ r.audiobook_title = Null

\* preprocess_data
preprocess_data(records) == SelectSeq(Map(Row, records), IsMusic)

\* the records of the files, in the order of the sequence of file names
RECURSIVE Extend(_, _)
Extend(files, names) ==
    IF names = <<>> THEN <<>>
    ELSE files[Head(names)] \o Extend(files, Tail(names))

\* mutant: the directory listing is taken in reverse
GlobReversed(files) == Reverse(SortedSeq(DOMAIN files))

\* sorted(DATA_DIR.glob("Streaming_History_Audio_*.json")); a file name is
\* the number of its place in the order of names
SortedGlob(files) == SortedSeq(DOMAIN files)

\* the body of load_all_data: a table, or the KeyError of df["ts"] on the
\* column-less frame that no records give
load_all_data(files) ==
    LET all_records == Extend(files, SortedGlob(files))
    IN  IF all_records = <<>>
        THEN [raises |-> "KeyError", table |-> <<>>]
        ELSE [raises |-> "", table |-> preprocess_data(all_records)]

\* Playlist1.json: absent, or {"playlists": [...]}
NoPlaylistFile == [present |-> FALSE, playlists |-> <<>>]
PlaylistFile(ps) == [present |-> TRUE, playlists |-> ps]
Playlist(name, items) == [name |-> name, items |-> items]
\* an item with a track, and one without (an episode or a local file)
TrackItem(t, a) == [track |-> TRUE, trackName |-> t, artistName |-> a]
OtherItem == [track |-> FALSE, trackName |-> Null, artistName |-> Null]

\* EXCLUDED_PLAYLISTS
EXCLUDED_PLAYLISTS == {"SD/TB - Thanks 4 Sharing", "SD/TB - Client Confirmed Bangers"}

\* the body of load_playlists
load_playlists(file) == IF file.present THEN file.playlists ELSE <<>>

PlaylistRow(name, item) ==
    [playlist |-> name, track |-> item.trackName, artist |-> item.artistName]

\* mutant: no playlist is left out
RowsOfAnyPlaylist(p) ==
    LET items == SelectSeq(p.items, LAMBDA it : it.track)
    IN  [j \in 1..Len(items) |-> PlaylistRow(p.name, items[j])]

\* the rows one playlist contributes
RowsOf(p) ==
    IF p.name \in EXCLUDED_PLAYLISTS THEN <<>>
    ELSE LET items == SelectSeq(p.items, LAMBDA it : it.track)
         IN  [j \in 1..Len(items) |-> PlaylistRow(p.name, items[j])]

\* the body of get_all_playlist_tracks, given what load_playlists returned
RECURSIVE get_all_playlist_tracks(_)
get_all_playlist_tracks(playlists) ==
    IF playlists = <<>> THEN <<>>
    ELSE RowsOf(Head(playlists)) \o get_all_playlist_tracks(Tail(playlists))

(***************************************************************************)
(* The memoizing wrappers.                                                 *)
(***************************************************************************)
\* st.cache_data(ttl=3600), seconds
DATA_TTL == 3600

NoMemo == [hit |-> FALSE, value |-> <<>>, stored_at |-> 0]
Memo(v, t) == [hit |-> TRUE, value |-> v, stored_at |-> t]

\* mutant: an entry never expires
LiveForever(m, t) == m.hit

\* a st.cache_data entry is served while it is younger than the ttl
Live(m, t) == m.hit /\ t < m.stored_at + DATA_TTL

\* no data operation has run in this process
DataIdle ==
    /\ exportFiles = <<>>
    /\ playlistFile = NoPlaylistFile
    /\ lru_all_data = NoMemo
    /\ lru_playlists = NoMemo
    /\ lru_playlist_tracks = NoMemo
    /\ st_data = NoMemo
    /\ stats_df = <<>>
    /\ d_op = "none"
    /\ d_ret = <<>>
    /\ d_entry = ""
    /\ d_read = FALSE

serviceVars == <<REQUESTS_AVAILABLE, client_id, client_secret, hashOrder,
                 genreFile, tokenFile, pc, op, caller, enrichVars, token,
                 fetchVars, log, histVars>>

\* load_all_data() behind its lru_cache: the memoized table when there is
\* one; a raised exception is not memoized
LoadAllData ==
    /\ d_op' = "load_all_data"
    /\ d_entry' = ""
    /\ IF lru_all_data.hit
       THEN /\ d_ret' = [raises |-> "", table |-> lru_all_data.value]
            /\ d_read' = FALSE
            /\ UNCHANGED lru_all_data
       ELSE LET res == load_all_data(exportFiles)
            IN  /\ d_ret' = res
                /\ d_read' = TRUE
                /\ lru_all_data' = IF res.raises = "" THEN Memo(res.table, 0)
                                                     ELSE lru_all_data
    /\ UNCHANGED <<serviceVars, now, exportFiles, playlistFile, lru_playlists,
                   lru_playlist_tracks, st_data, stats_df>>

\* app.get_data(): st.cache_data(ttl=3600) around load_all_data()
GetData ==
    /\ d_op' = "get_data"
    /\ d_entry' = IF Live(st_data, now) THEN "live"
                 ELSE IF st_data.hit THEN "expired" ELSE "absent"
    /\ IF Live(st_data, now)
       THEN /\ d_ret' = [raises |-> "", table |-> st_data.value]
            /\ d_read' = FALSE
            /\ UNCHANGED <<st_data, lru_all_data>>
       ELSE IF lru_all_data.hit
       THEN /\ d_ret' = [raises |-> "", table |-> lru_all_data.value]
            /\ d_read' = FALSE
            /\ st_data' = Memo(lru_all_data.value, now)
            /\ UNCHANGED lru_all_data
       ELSE LET res == load_all_data(exportFiles)
            IN  /\ d_ret' = res
                /\ d_read' = TRUE
                /\ lru_all_data' = IF res.raises = "" THEN Memo(res.table, 0)
                                                     ELSE lru_all_data
                /\ st_data' = IF res.raises = "" THEN Memo(res.table, now)
                                                ELSE st_data
    /\ UNCHANGED <<serviceVars, now, exportFiles, playlistFile, lru_playlists,
                   lru_playlist_tracks, stats_df>>

\* get_all_playlist_tracks() behind its lru_cache, load_playlists() behind
\* its own: the table returned and the two caches afterwards
PlaylistTracksCall ==
    IF lru_playlist_tracks.hit
    THEN [table |-> lru_playlist_tracks.value, read |-> FALSE,
          playlists |-> lru_playlists, tracks |-> lru_playlist_tracks]
    ELSE LET data == IF lru_playlists.hit THEN lru_playlists.value
                     ELSE load_playlists(playlistFile)
             table == get_all_playlist_tracks(data)
         IN  [table |-> table, read |-> ~lru_playlists.hit,
              playlists |-> Memo(data, 0), tracks |-> Memo(table, 0)]

GetAllPlaylistTracks ==
    /\ d_op' = "get_all_playlist_tracks"
    /\ d_entry' = ""
    /\ d_ret' = [raises |-> "", table |-> PlaylistTracksCall.table]
    /\ d_read' = PlaylistTracksCall.read
    /\ lru_playlists' = PlaylistTracksCall.playlists
    /\ lru_playlist_tracks' = PlaylistTracksCall.tracks
    /\ UNCHANGED <<serviceVars, now, exportFiles, playlistFile, lru_all_data,
                   st_data, stats_df>>

(***************************************************************************)
(* The query functions (src/data_loader.py).                               *)
(***************************************************************************)
\* NaN, the value of a pivot cell no group fills
NaN == 0 - 1

\* fillna(0)
FillNa(v) == IF v = NaN THEN 0 ELSE v

\* df.groupby(["day_of_week", "hour"]).size(): the pairs that occur, with
\* the number of their rows
GroupSizes(t) ==
    LET pairs == {<<t[j].day_of_week, t[j].hour>> : j \in 1..Len(t)}
    IN  [g \in pairs |->
            Cardinality({j \in 1..Len(t) : <<t[j].day_of_week, t[j].hour>> = g})]

\* get_heatmap_data: pivot(index="day_of_week", columns="hour").fillna(0);
\* the index and the columns are the values that occur
get_heatmap_data(t) ==
    LET sizes == GroupSizes(t)
        days == {g[1] : g \in DOMAIN sizes}
        hours == {g[2] : g \in DOMAIN sizes}
    IN  [index |-> days, columns |-> hours,
         values |-> [c \in days \X hours |->
                        FillNa(IF c \in DOMAIN sizes THEN sizes[c] ELSE NaN)]]

\* df if year is None else df[df["year"] == year]
FilterYear(t, year) ==
    IF year = Absent THEN t ELSE SelectSeq(t, LAMBDA r : r.year = year)

\* the groupby key of a row
KeyOf(kind, r) ==
    CASE kind = "artists" -> <<r.artist>>
      [] kind = "tracks" -> <<r.track, r.artist>>
      [] OTHER -> <<r.album, r.artist>>

HasNull(key) == \E j \in 1..Len(key) : key[j] = Null

RECURSIVE SumOver(_, _)
SumOver(S, f) ==
    IF S = {} THEN 0
    ELSE LET x == CHOOSE y \in S : TRUE IN f[x] + SumOver(S \ {x}, f)

\* groupby(key).agg(play_count=("ts", "count"), total_minutes=("minutes_played",
\* "sum")): one row per key without a null
GroupStats(kind, t) ==
    LET keys == {KeyOf(kind, t[j]) : j \in 1..Len(t)}
        rowsOf(k) == {j \in 1..Len(t) : KeyOf(kind, t[j]) = k}
    IN  {[key |-> k,
          play_count |-> Cardinality(rowsOf(k)),
          total_minutes |-> SumOver(rowsOf(k), [j \in 1..Len(t) |-> t[j].minutes_played])]
         : k \in {k \in keys : ~HasNull(k)}}

\* sort_col; get_top_albums has no `by` and sorts by play_count
SortCol(kind, by) ==
    IF kind = "albums" \/ by = "plays" THEN "play_count" ELSE "total_minutes"

\* mutant: ascending=False is left out
SortedAscending(rows, col) ==
    \A a, b \in 1..Len(rows) : a < b => rows[a][col] <= rows[b][col]

\* the order sort_values(col, ascending=False) leaves: descending in col.
\* The default kind is quicksort, which is not stable: rows with equal col
\* come out in any order.
SortedDescending(rows, col) ==
    \A a, b \in 1..Len(rows) : a < b => rows[a][col] >= rows[b][col]

\* the orders in which the rows of a set can be listed
Orders(S) ==
    {o \in [1..Cardinality(S) -> S] : \A a, b \in 1..Cardinality(S) : a # b => o[a] # o[b]}

\* head(limit), limit >= 0
HeadRows(rows, limit) == SubSeq(rows, 1, Min(limit, Len(rows)))

\* mutant: the second operand is forgotten
SharedFirstOnly(s1, s2) == s1

\* p1_artists & p2_artists, p1_tracks & p2_tracks
Shared(s1, s2) == s1 \cap s2

\* get_playlist_overlap on the table get_all_playlist_tracks() returned; the
\* shared lists are built from sets, in no particular order
get_playlist_overlap(t, playlist1, playlist2) ==
    IF t = <<>> THEN [empty |-> TRUE]
    ELSE
    LET p1 == SelectSeq(t, LAMBDA r : r.playlist = playlist1)
        p2 == SelectSeq(t, LAMBDA r : r.playlist = playlist2)
        p1_artists == {p1[j].artist : j \in 1..Len(p1)}
        p2_artists == {p2[j].artist : j \in 1..Len(p2)}
        p1_tracks == {<<p1[j].track, p1[j].artist>> : j \in 1..Len(p1)}
        p2_tracks == {<<p2[j].track, p2[j].artist>> : j \in 1..Len(p2)}
    IN  [empty |-> FALSE,
         playlist1 |-> playlist1,
         playlist2 |-> playlist2,
         p1_track_count |-> Len(p1),
         p2_track_count |-> Len(p2),
         p1_artist_count |-> Cardinality(p1_artists),
         p2_artist_count |-> Cardinality(p2_artists),
         shared_artists |-> Shared(p1_artists, p2_artists),
         shared_artist_count |-> Cardinality(Shared(p1_artists, p2_artists)),
         shared_tracks |-> Shared(p1_tracks, p2_tracks),
         shared_track_count |-> Cardinality(Shared(p1_tracks, p2_tracks))]

\* ms_played of "2+ minutes"
MIN_MS_PLAYED == 120000

\* set(zip(playlist_tracks["track"], playlist_tracks["artist"])); the empty
\* table gives the empty set
PlaylistSet(playlist_tracks) ==
    {<<playlist_tracks[j].track, playlist_tracks[j].artist>> :
        j \in 1..Len(playlist_tracks)}

\* the place of a timestamp in the order of time
TsOrd(ts) == (ts.year * 7 + ts.day_of_week) * 24 + ts.hour

\* the groupby key of get_one_hit_wonders
WonderKey(r) == <<r.track, r.artist, r.album>>

\* groupby(["track", "artist", "album"]).agg(play_count=("ts", "count"),
\* played_on=("ts", "first"), ms_played=("ms_played", "sum")).reset_index():
\* one row per key without a null
WonderCounts(t) ==
    LET keys == {WonderKey(t[j]) : j \in 1..Len(t)}
        rowsOf(k) == {j \in 1..Len(t) : WonderKey(t[j]) = k}
        first(k) == CHOOSE j \in rowsOf(k) : \A j2 \in rowsOf(k) : j <= j2
    IN  {[track |-> k[1], artist |-> k[2], key |-> k,
          play_count |-> Cardinality(rowsOf(k)),
          played_on |-> t[first(k)].ts,
          ms_played |-> SumOver(rowsOf(k), [j \in 1..Len(t) |-> t[j].ms_played])]
         : k \in {k \in keys : ~HasNull(k)}}

\* played exactly once, 2+ minutes
OneHit(row) == row.play_count = 1 /\ row.ms_played >= MIN_MS_PLAYED

\* sort_values("played_on", ascending=False)
NewestFirst(rows) ==
    \A a, b \in 1..Len(rows) :
        a < b => TsOrd(rows[a].played_on) >= TsOrd(rows[b].played_on)

\* the rows of get_one_hit_wonders before the sort and head(limit)
WonderRows(t, playlist_tracks) ==
    {row \in WonderCounts(t) :
        OneHit(row) /\ <<row.track, row.artist>> \notin PlaylistSet(playlist_tracks)}

\* groupby(["track", "artist"]).agg(play_count=("ts", "count"),
\* ms_played=("ms_played", "sum")) of get_one_hit_wonder_stats
StatsCounts(t) ==
    LET keys == {<<t[j].track, t[j].artist>> : j \in 1..Len(t)}
        rowsOf(k) == {j \in 1..Len(t) : <<t[j].track, t[j].artist>> = k}
    IN  {[track |-> k[1], artist |-> k[2],
          play_count |-> Cardinality(rowsOf(k)),
          ms_played |-> SumOver(rowsOf(k), [j \in 1..Len(t) |-> t[j].ms_played])]
         : k \in {k \in keys : ~HasNull(k)}}

\* mutant: the filter to 2+ minutes is left out
LongEnoughAll(track_counts) == track_counts

\* track_counts[track_counts["ms_played"] >= 120000]
LongEnough(track_counts) ==
    {row \in track_counts : row.ms_played >= MIN_MS_PLAYED}

\* round(x, 1) of x = 100 * count / total, in tenths of a percent: to the
\* nearest tenth, a tie to the even one
Round1(count, total) ==
    LET q == (1000 * count) \div total
        rem == (1000 * count) % total
    IN  IF 2 * rem > total \/ (2 * rem = total /\ q % 2 = 1) THEN q + 1 ELSE q

\* round(one_hit_count / total_unique_tracks * 100, 1) if
\* total_unique_tracks > 0 else 0
Percent(count, total) == IF total > 0 THEN Round1(count, total) ELSE 0

\* one_hits of get_one_hit_wonder_stats: played once and not on a playlist
StatsOneHits(track_counts, playlist_set) ==
    {row \in track_counts :
        row.play_count = 1 /\ <<row.track, row.artist>> \notin playlist_set}

\* get_one_hit_wonder_stats; one_hit_percent in tenths of a percent
get_one_hit_wonder_stats(t, playlist_tracks) ==
    LET track_counts == LongEnough(StatsCounts(t))
        one_hits == StatsOneHits(track_counts, PlaylistSet(playlist_tracks))
        total_unique_tracks == Cardinality(track_counts)
        one_hit_count == Cardinality(one_hits)
    IN  [total_unique_tracks |-> total_unique_tracks,
         one_hit_count |-> one_hit_count,
         one_hit_percent |-> Percent(one_hit_count, total_unique_tracks)]

\* get_playlist_names, given what load_playlists returned
get_playlist_names(playlists) ==
    LET kept == SelectSeq(playlists, LAMBDA p : p.name \notin EXCLUDED_PLAYLISTS)
    IN  [j \in 1..Len(kept) |-> kept[j].name]

\* [i for i in items if i.get("track")]
TrackItems(p) == SelectSeq(p.items, LAMBDA it : it.track)

\* the playlists get_playlist_stats does not skip
Summarized(playlists) ==
    SelectSeq(playlists, LAMBDA p : p.name \notin EXCLUDED_PLAYLISTS)

\* the rows of get_playlist_stats before the sort: name, track_count and
\* unique_artists of every playlist that is not left out; seq is the place
\* of the playlist among them
PlaylistStatRows(playlists) ==
    LET kept == Summarized(playlists)
    IN  {[seq |-> j,
          name |-> kept[j].name,
          track_count |-> Len(TrackItems(kept[j])),
          unique_artists |->
              Cardinality({TrackItems(kept[j])[k].artistName :
                              k \in 1..Len(TrackItems(kept[j]))})]
         : j \in 1..Len(kept)}

\* mutant: a pair in a single playlist is kept
InAnyPlaylist(row) == row.playlist_count >= 1

\* dupes[dupes["playlist_count"] > 1]
InSeveralPlaylists(row) == row.playlist_count > 1

\* get_track_duplicates on the table get_all_playlist_tracks() returned,
\* before the sort: groupby(["track", "artist"]) with the number of distinct
\* playlists and their names (a list without repetitions, kept as a set)
get_track_duplicates(t) ==
    LET keys == {<<t[j].track, t[j].artist>> : j \in 1..Len(t)}
        playlistsOf(k) ==
            {t[j].playlist : j \in {n \in 1..Len(t) : <<t[n].track, t[n].artist>> = k}}
        dupes == {[track |-> k[1], artist |-> k[2],
                   playlist_count |-> Cardinality(playlistsOf(k)),
                   playlists |-> playlistsOf(k)]
                  : k \in {k \in keys : ~HasNull(k)}}
    IN  IF t = <<>> THEN {} ELSE {row \in dupes : InSeveralPlaylists(row)}

\* mutant: the playlist asked about is not left out
AllPlaylistsOf(t, track, artist, playlist_name) ==
    {t[j].playlist : j \in {n \in 1..Len(t) : t[n].track = track /\ t[n].artist = artist}}

\* df[(track == ...) & (artist == ...) & (playlist != playlist_name)]
\* ["playlist"].unique(); a null equals nothing
OtherPlaylists(t, track, artist, playlist_name) ==
    {t[j].playlist :
        j \in {n \in 1..Len(t) :
                 /\ track # Null /\ t[n].track = track
                 /\ artist # Null /\ t[n].artist = artist
                 /\ t[n].playlist # playlist_name}}

\* mutant: the playlist asked about is counted
OverlapCountWithSelf(other_playlists) == Cardinality(other_playlists) + 1

\* len(other_playlists)
OverlapCount(other_playlists) == Cardinality(other_playlists)

\* get_playlist_track_overlaps on the table get_all_playlist_tracks()
\* returned, before the sort: one row per distinct pair of the playlist that
\* some other playlist has
get_playlist_track_overlaps(t, playlist_name) ==
    LET playlist_tracks ==
            {<<t[j].track, t[j].artist>> :
                j \in {n \in 1..Len(t) : t[n].playlist = playlist_name}}
    IN  {[track |-> k[1], artist |-> k[2],
          other_playlists |-> OtherPlaylists(t, k[1], k[2], playlist_name),
          overlap_count |-> OverlapCount(OtherPlaylists(t, k[1], k[2], playlist_name))]
         : k \in {k \in playlist_tracks :
                     OtherPlaylists(t, k[1], k[2], playlist_name) # {}}}

\* a string is a sequence of characters; a missing name (NaN) is NoText
NoText == <<Null>>

\* str.lower(), on the letters that occur
LowerChar(c) == IF c = "A" THEN "a" ELSE IF c = "B" THEN "b" ELSE c
Lower(text) == [k \in 1..Len(text) |-> LowerChar(text[k])]

\* re.compile(pat) raises re.error: of the special characters "(" opens a
\* group that nothing closes
BadPattern(pat) == \E k \in 1..Len(pat) : pat[k] = "("

\* re.search(pat, text) finds a match: "." stands for any character, a
\* letter for itself
Found(pat, text) ==
    \E off \in 0..(Len(text) - Len(pat)) :
        \A k \in 1..Len(pat) : pat[k] = "." \/ pat[k] = text[off + k]

\* Series.str.lower().str.contains(pat, na=False): regex=True is the default
StrContains(text, pat) == text # NoText /\ Found(pat, Lower(text))

\* one loaded event of the search tables
SearchEvent(id, ts, minutes, track, artist, album) ==
    [id |-> id, ts |-> ts, minutes_played |-> minutes,
     track |-> track, artist |-> artist, album |-> album]

\* matches.groupby(["track", "artist", "album"]).agg(play_count=("ts",
\* "count"), total_minutes=("minutes_played", "sum"), first_played=("ts",
\* "min"), last_played=("ts", "max")): one row per key without a NaN
SearchStats(matches) ==
    LET keyOf(r) == <<r.track, r.artist, r.album>>
        keys == {keyOf(matches[j]) : j \in 1..Len(matches)}
        rowsOf(k) == {j \in 1..Len(matches) : keyOf(matches[j]) = k}
        times(k) == {matches[j].ts : j \in rowsOf(k)}
    IN  {[track |-> k[1], artist |-> k[2], album |-> k[3],
          play_count |-> Cardinality(rowsOf(k)),
          total_minutes |-> SumOver(rowsOf(k),
                               [j \in 1..Len(matches) |-> matches[j].minutes_played]),
          first_played |-> CHOOSE x \in times(k) : \A y \in times(k) : x <= y,
          last_played |-> CHOOSE x \in times(k) : \A y \in times(k) : x >= y]
         : k \in {k \in keys : \A n \in 1..3 : k[n] # NoText}}

\* df[mask] of search_tracks
SearchMatches(t, query_lower) ==
    SelectSeq(t, LAMBDA r : \/ StrContains(r.track, query_lower)
                            \/ StrContains(r.artist, query_lower)
                            \/ StrContains(r.album, query_lower))

\* the inputs explored
Years == {Absent, 2020}
PlaylistNames == {"P", "Q", "R"}

\* get_heatmap_data(df)
Heatmap ==
    /\ d_op' = "heatmap"
    /\ d_ret' = get_heatmap_data(stats_df)
    /\ d_entry' = ""
    /\ d_read' = FALSE
    /\ UNCHANGED <<serviceVars, now, exportFiles, playlistFile, lru_all_data,
                   lru_playlists, lru_playlist_tracks, st_data, stats_df>>

\* get_top_artists / get_top_tracks / get_top_albums (df, year, limit, by)
Top ==
    /\ \E kind \in {"artists", "tracks", "albums"}, year \in Years,
          limit \in 0..MaxLimit, by \in {"plays", "minutes"} :
        /\ kind = "albums" => by = "plays"
        /\ LET filtered == FilterYear(stats_df, year)
               stats == GroupStats(kind, filtered)
           IN  \E sorted \in Orders(stats) :
                 /\ SortedDescending(sorted, SortCol(kind, by))
                 /\ d_ret' = [kind |-> kind, year |-> year, limit |-> limit,
                              by |-> by, rows |-> HeadRows(sorted, limit)]
    /\ d_op' = "top"
    /\ d_entry' = ""
    /\ d_read' = FALSE
    /\ UNCHANGED <<serviceVars, now, exportFiles, playlistFile, lru_all_data,
                   lru_playlists, lru_playlist_tracks, st_data, stats_df>>

\* get_playlist_overlap(a, b) and get_playlist_overlap(b, a), each on the
\* table get_all_playlist_tracks() returns
Overlap ==
    /\ \E a, b \in PlaylistNames :
        d_ret' = [a |-> a, b |-> b,
                  ab |-> get_playlist_overlap(PlaylistTracksCall.table, a, b),
                  ba |-> get_playlist_overlap(PlaylistTracksCall.table, b, a)]
    /\ d_op' = "overlap"
    /\ d_entry' = ""
    /\ d_read' = PlaylistTracksCall.read
    /\ lru_playlists' = PlaylistTracksCall.playlists
    /\ lru_playlist_tracks' = PlaylistTracksCall.tracks
    /\ UNCHANGED <<serviceVars, now, exportFiles, playlistFile, lru_all_data,
                   st_data, stats_df>>

\* load_playlists() behind its lru_cache
PlaylistsCall ==
    IF lru_playlists.hit
    THEN [data |-> lru_playlists.value, read |-> FALSE]
    ELSE [data |-> load_playlists(playlistFile), read |-> TRUE]

\* get_playlist_names()
GetPlaylistNames ==
    /\ d_ret' = [names |-> get_playlist_names(PlaylistsCall.data)]
    /\ d_op' = "get_playlist_names"
    /\ d_entry' = ""
    /\ d_read' = PlaylistsCall.read
    /\ lru_playlists' = Memo(PlaylistsCall.data, 0)
    /\ UNCHANGED <<serviceVars, now, exportFiles, playlistFile, lru_all_data,
                   lru_playlist_tracks, st_data, stats_df>>

\* get_playlist_stats(): sort_values("track_count", ascending=False) unless
\* there is no row
GetPlaylistStats ==
    /\ \E sorted \in Orders(PlaylistStatRows(PlaylistsCall.data)) :
        /\ SortedDescending(sorted, "track_count")
        /\ d_ret' = [rows |-> sorted]
    /\ d_op' = "get_playlist_stats"
    /\ d_entry' = ""
    /\ d_read' = PlaylistsCall.read
    /\ lru_playlists' = Memo(PlaylistsCall.data, 0)
    /\ UNCHANGED <<serviceVars, now, exportFiles, playlistFile, lru_all_data,
                   lru_playlist_tracks, st_data, stats_df>>

\* get_track_duplicates(): sort_values("playlist_count", ascending=False)
Duplicates ==
    /\ \E sorted \in Orders(get_track_duplicates(PlaylistTracksCall.table)) :
        /\ SortedDescending(sorted, "playlist_count")
        /\ d_ret' = [rows |-> sorted]
    /\ d_op' = "duplicates"
    /\ d_entry' = ""
    /\ d_read' = PlaylistTracksCall.read
    /\ lru_playlists' = PlaylistTracksCall.playlists
    /\ lru_playlist_tracks' = PlaylistTracksCall.tracks
    /\ UNCHANGED <<serviceVars, now, exportFiles, playlistFile, lru_all_data,
                   st_data, stats_df>>

\* get_playlist_track_overlaps(playlist_name):
\* sort_values("overlap_count", ascending=False) unless there is no row
TrackOverlaps ==
    /\ \E playlist_name \in PlaylistNames :
         \E sorted \in Orders(get_playlist_track_overlaps(PlaylistTracksCall.table,
                                                         playlist_name)) :
            /\ SortedDescending(sorted, "overlap_count")
            /\ d_ret' = [playlist_name |-> playlist_name, rows |-> sorted]
    /\ d_op' = "track_overlaps"
    /\ d_entry' = ""
    /\ d_read' = PlaylistTracksCall.read
    /\ lru_playlists' = PlaylistTracksCall.playlists
    /\ lru_playlist_tracks' = PlaylistTracksCall.tracks
    /\ UNCHANGED <<serviceVars, now, exportFiles, playlistFile, lru_all_data,
                   st_data, stats_df>>

\* limit of search_tracks when the caller gives none
DEFAULT_SEARCH_LIMIT == 50

\* the queries explored: letters in both cases and two characters that are
\* special in a regular expression
QueryChars == {"a", "B", ".", "("}
Queries == UNION {[1..k -> QueryChars] : k \in 0..MaxQuery}

\* search_tracks(df, query, limit): raises what re.compile raises; no match
\* gives an empty frame; else the groups by play_count, descending
SearchTracks ==
    /\ \E query \in Queries, limit \in (0..MaxLimit) \cup {DEFAULT_SEARCH_LIMIT} :
         IF BadPattern(Lower(query))
         THEN d_ret' = [query |-> query, limit |-> limit, raises |-> "re.error",
                        rows |-> <<>>]
         ELSE \E sorted \in Orders(SearchStats(SearchMatches(stats_df, Lower(query)))) :
                /\ SortedDescending(sorted, "play_count")
                /\ d_ret' = [query |-> query, limit |-> limit, raises |-> "",
                             rows |-> HeadRows(sorted, limit)]
    /\ d_op' = "search_tracks"
    /\ d_entry' = ""
    /\ d_read' = FALSE
    /\ UNCHANGED <<serviceVars, now, exportFiles, playlistFile, lru_all_data,
                   lru_playlists, lru_playlist_tracks, st_data, stats_df>>

\* limit of get_one_hit_wonders: the default, and what render_one_hit_wonders
\* passes
DEFAULT_WONDER_LIMIT == 50
RENDER_WONDER_LIMIT == 20

\* get_one_hit_wonders(df, limit), on the table get_all_playlist_tracks()
\* returns; rows played at the same time come out in any order
OneHitWonders ==
    /\ \E limit \in (0..MaxLimit) \cup {DEFAULT_WONDER_LIMIT} :
         \E sorted \in Orders(WonderRows(stats_df, PlaylistTracksCall.table)) :
            /\ NewestFirst(sorted)
            /\ d_ret' = [limit |-> limit, rows |-> HeadRows(sorted, limit)]
    /\ d_op' = "one_hit_wonders"
    /\ d_entry' = ""
    /\ d_read' = PlaylistTracksCall.read
    /\ lru_playlists' = PlaylistTracksCall.playlists
    /\ lru_playlist_tracks' = PlaylistTracksCall.tracks
    /\ UNCHANGED <<serviceVars, now, exportFiles, playlistFile, lru_all_data,
                   st_data, stats_df>>

\* get_one_hit_wonder_stats(df)
OneHitStats ==
    /\ d_ret' = get_one_hit_wonder_stats(stats_df, PlaylistTracksCall.table)
    /\ d_op' = "one_hit_stats"
    /\ d_entry' = ""
    /\ d_read' = PlaylistTracksCall.read
    /\ lru_playlists' = PlaylistTracksCall.playlists
    /\ lru_playlist_tracks' = PlaylistTracksCall.tracks
    /\ UNCHANGED <<serviceVars, now, exportFiles, playlistFile, lru_all_data,
                   st_data, stats_df>>

\* render_one_hit_wonders(df): the statistics, then the list with limit=20
RenderOneHitWonders ==
    /\ \E sorted \in Orders(WonderRows(stats_df, PlaylistTracksCall.table)) :
        /\ NewestFirst(sorted)
        /\ d_ret' = [stats |-> get_one_hit_wonder_stats(stats_df,
                                   PlaylistTracksCall.table),
                     limit |-> RENDER_WONDER_LIMIT,
                     wonders |-> HeadRows(sorted, RENDER_WONDER_LIMIT)]
    /\ d_op' = "render_one_hit_wonders"
    /\ d_entry' = ""
    /\ d_read' = PlaylistTracksCall.read
    /\ lru_playlists' = PlaylistTracksCall.playlists
    /\ lru_playlist_tracks' = PlaylistTracksCall.tracks
    /\ UNCHANGED <<serviceVars, now, exportFiles, playlistFile, lru_all_data,
                   st_data, stats_df>>

(***************************************************************************)
(* Specifications.                                                         *)
(***************************************************************************)
InitGenreFiles ==
    {AbsentFile, CorruptFile,
     JsonDict("Z" :> <<"jazz">>),
     JsonDict(("A" :> <<"jazz">>) @@ ("Z" :> <<"jazz">>))}

ServiceIdle ==
    /\ pc = "idle"
    /\ op = "none"
    /\ caller = "top"
    /\ NoEnrichFrame
    /\ NoFetchFrame
    /\ token = NoneTok
    /\ log = <<>>
    /\ loaded = EmptyDict
    /\ file0 = genreFile
    /\ tokenFile0 = tokenFile
    /\ again = FALSE
    /\ prev = NoPrev

Idle ==
    /\ ServiceIdle
    /\ DataIdle

\* the service between calls, with whatever earlier runs left on disk
Init ==
    /\ REQUESTS_AVAILABLE \in BOOLEAN
    /\ client_id \in BOOLEAN
    /\ client_secret \in BOOLEAN
    /\ now = 0
    /\ hashOrder \in {"asc", "desc"}
    /\ genreFile \in InitGenreFiles
    /\ tokenFile \in {AbsentToken, TokenRecord("t0", now + 1), TokenRecord("t0", now)}
    /\ Idle

Next ==
    \/ Enrich
    \/ EnrichAgain
    \/ GetTokenCall
    \/ GetTokenEntry
    \/ TokenPost
    \/ EnrichAfterToken
    \/ FetchEntry
    \/ BatchRequest
    \/ RetryBatch
    \/ FetchReturn
    \/ EnrichAfterTracks
    \/ EnrichAfterArtists

Spec == Init /\ [][Next]_vars

\* the identifier list 1..n followed by d of them once more and d empty ones
IdList(n, d) == [j \in 1..(n + d + d) |->
                    IF j <= n THEN j ELSE IF j <= n + d THEN j - n ELSE 0]

\* list sizes around the batch boundaries
IdCounts == {0, 1, BATCH_SIZE - 1, BATCH_SIZE, BATCH_SIZE + 1, 2 * BATCH_SIZE, MaxIds}

\* a direct call of one of the fetch functions
InitFetch ==
    /\ REQUESTS_AVAILABLE \in BOOLEAN
    /\ client_id = TRUE
    /\ client_secret = TRUE
    /\ now = 0
    /\ hashOrder = "asc"
    /\ genreFile = AbsentFile
    /\ tokenFile = AbsentToken
    /\ pc = "fetch_entry"
    /\ op = "fetch"
    /\ caller = "top"
    /\ NoEnrichFrame
    /\ token \in {"", "t0"}
    /\ f_kind \in {"tracks", "artists"}
    /\ \E n \in IdCounts, d \in 0..MaxDups :
          /\ d <= n
          /\ ids_arg = IdList(n, d)
    /\ unique_ids = <<>>
    /\ i = 0
    /\ results = <<>>
    /\ retry_after = 0
    /\ log = <<>>
    /\ loaded = EmptyDict
    /\ file0 = genreFile
    /\ tokenFile0 = tokenFile
    /\ again = FALSE
    /\ prev = NoPrev
    /\ DataIdle

NextFetch ==
    \/ FetchEntry
    \/ BatchRequest
    \/ RetryBatch
    \/ FetchReturn

SpecFetch == InitFetch /\ [][NextFetch]_vars

\* the clock of the process advances
Tick ==
    /\ now < MaxTime
    /\ now' = now + 1
    /\ UNCHANGED <<REQUESTS_AVAILABLE, client_id, client_secret, hashOrder,
                   genreFile, tokenFile, pc, op, caller, enrichVars, token,
                   fetchVars, log, histVars, dataVars>>

\* what an earlier run or another program may have left as the token file
InitTokenFiles ==
    {AbsentToken, CorruptToken, ListToken, BadDateToken("t0"), NoDateToken("t0"),
     NoAccessToken(2), TokenRecord("t0", 2), TokenRecord("t0", 0)}

\* get_access_token called again and again while time passes
InitToken ==
    /\ REQUESTS_AVAILABLE = TRUE
    /\ client_id = TRUE
    /\ client_secret \in BOOLEAN
    /\ now = 0
    /\ hashOrder = "asc"
    /\ genreFile = AbsentFile
    /\ tokenFile \in InitTokenFiles
    /\ Idle

NextToken ==
    \/ GetTokenCall
    \/ GetTokenEntry
    \/ TokenPost
    \/ Tick

SpecToken == InitToken /\ [][NextToken]_vars

\* a call of enrich_with_genres without a streaming table
EnrichNoTable ==
    \E fr \in BOOLEAN, ioerr \in BOOLEAN : EnrichBegin(fr, NoTable, ioerr, FALSE)

\* enrich_with_genres(names) called again and again, over every kind of
\* token cache file
InitNoTable ==
    /\ REQUESTS_AVAILABLE \in BOOLEAN
    /\ client_id \in BOOLEAN
    /\ client_secret \in BOOLEAN
    /\ now = 0
    /\ hashOrder = "asc"
    /\ genreFile \in InitGenreFiles
    /\ tokenFile \in InitTokenFiles
    /\ Idle

NextNoTable ==
    \/ EnrichNoTable
    \/ GetTokenEntry
    \/ TokenPost
    \/ EnrichAfterToken

SpecNoTable == InitNoTable /\ [][NextNoTable]_vars

\* a streaming table of n tracks, with a missing URI, an episode and a
\* repeated track among them
LongTable(n) ==
    Table(<<NaUri, Uri(<<"spotify", "episode">>, <<7>>)>>
          \o [j \in 1..n |-> TrackUri(j)] \o <<TrackUri(1)>>)

\* tables of a few tracks, of as many tracks as one call looks up, and of more
LongTables ==
    {Table(<<TrackUri(1), NaUri, TrackUri(2), TrackUri(1),
             Uri(<<"spotify", "episode">>, <<7>>), TrackUri(0), TrackUri(3)>>),
     LongTable(TRACK_LIMIT),
     LongTable(TRACK_LIMIT + MaxOver)}

\* the first enrich_with_genres call of a process, on one of these tables
EnrichLong ==
    /\ op = "none"
    /\ \E fr \in BOOLEAN, df \in LongTables : EnrichBegin(fr, df, FALSE, FALSE)

\* a configured service with a cached token
InitLong ==
    /\ REQUESTS_AVAILABLE = TRUE
    /\ client_id = TRUE
    /\ client_secret = TRUE
    /\ now = 0
    /\ hashOrder = "asc"
    /\ genreFile \in {AbsentFile, JsonDict("Z" :> <<"jazz">>)}
    /\ tokenFile = TokenRecord("t0", now + 1)
    /\ Idle

NextLong ==
    \/ EnrichLong
    \/ GetTokenEntry
    \/ TokenPost
    \/ EnrichAfterToken
    \/ FetchEntry
    \/ BatchRequest
    \/ RetryBatch
    \/ FetchReturn
    \/ EnrichAfterTracks
    \/ EnrichAfterArtists

SpecLong == InitLong /\ [][NextLong]_vars

\* the identifier lists handed to a fetch function called between other calls
CallIdLists == {IdList(0, 0), IdList(1, 0), IdList(2, 1)}

\* a direct call of one of the fetch functions by a caller that holds a token
FetchCall ==
    /\ pc = "idle"
    /\ pc' = "fetch_entry"
    /\ op' = "fetch"
    /\ caller' = "top"
    /\ token' \in {"", "t0"}
    /\ f_kind' \in {"tracks", "artists"}
    /\ ids_arg' \in CallIdLists
    /\ unique_ids' = <<>>
    /\ i' = 0
    /\ results' = <<>>
    /\ retry_after' = 0
    /\ log' = <<>>
    /\ loaded' = EmptyDict
    /\ file0' = genreFile
    /\ tokenFile0' = tokenFile
    /\ again' = FALSE
    /\ prev' = NoPrev
    /\ DropEnrichFrame
    /\ UNCHANGED <<dataVars, envVars, genreFile, tokenFile>>

\* the service while a credential or the HTTP client is missing
InitUnconfigured ==
    /\ Init
    /\ ~is_api_available

NextUnconfigured ==
    \/ Enrich
    \/ GetTokenCall
    \/ GetTokenEntry
    \/ FetchCall
    \/ FetchEntry
    \/ BatchRequest
    \/ RetryBatch
    \/ FetchReturn

SpecUnconfigured == InitUnconfigured /\ [][NextUnconfigured]_vars

\* the Genre Enrichment Service is not in use
ServiceOff ==
    /\ REQUESTS_AVAILABLE = FALSE
    /\ client_id = FALSE
    /\ client_secret = FALSE
    /\ now = 0
    /\ hashOrder = "asc"
    /\ genreFile = AbsentFile
    /\ tokenFile = AbsentToken
    /\ ServiceIdle

\* nothing is memoized and no data operation has run
ColdCaches ==
    /\ lru_all_data = NoMemo
    /\ lru_playlists = NoMemo
    /\ lru_playlist_tracks = NoMemo
    /\ st_data = NoMemo
    /\ d_op = "none"
    /\ d_ret = <<>>
    /\ d_entry = ""
    /\ d_read = FALSE

\* the sequences over S of length at most n
SeqsUpTo(S, n) == UNION {[1..k -> S] : k \in 0..n}

\* two songs, a podcast episode, an audiobook chapter, and a record that
\* names both a track and an episode
Song1 == RawEvent(1, 2020, 0, 0, 180000, "x", "A", "k", Null, Null)
Song2 == RawEvent(2, 2020, 0, 23, 60000, "y", "B", "k", Null, Null)
Episode == RawEvent(3, 2020, 1, 8, 60000, Null, Null, Null, "e", Null)
Chapter == RawEvent(4, 2020, 1, 8, 60000, Null, Null, Null, Null, "b")
Hybrid == RawEvent(5, 2020, 1, 8, 60000, "x", "A", "k", "e", Null)
RawEvents == {Song1, Song2, Episode, Chapter, Hybrid}

\* export directories of no, one or two history files
ExportDirs ==
    {<<>>}
    \cup {<<f1>> : f1 \in SeqsUpTo(RawEvents, MaxRecords)}
    \cup {<<f1, f2>> : f1 \in SeqsUpTo(RawEvents, MaxRecords),
                       f2 \in SeqsUpTo(RawEvents, MaxRecords - 1)}

\* loaded events on the corners of the week, and a week that has an event on
\* every day and in every hour
StatRows ==
    {Row(Song1), Row(Song2),
     Row(RawEvent(6, 2021, 6, 0, 60000, "x", "B", "m", Null, Null)),
     Row(RawEvent(7, 2021, 6, 23, 120000, "z", "A", "m", Null, Null))}

FullWeek ==
    [j \in 1..24 |->
        Row(RawEvent(100 + j, 2020, (j - 1) % 7, j - 1, 60000, "x", "A", "k", Null, Null))]

EventTables == SeqsUpTo(StatRows, MaxRows) \cup {FullWeek}

\* playlists P and Q and an excluded one
Items == {TrackItem("x", "A"), TrackItem("y", "B"), TrackItem("x", "B"), OtherItem}

PlaylistFiles ==
    {NoPlaylistFile}
    \cup {PlaylistFile(<<Playlist("P", ip), Playlist("SD/TB - Thanks 4 Sharing", iq),
                         Playlist("Q", iq)>>) :
            ip \in SeqsUpTo(Items, MaxItems), iq \in SeqsUpTo(Items, MaxItems)}

\* load_all_data() on one export directory
InitLoader ==
    /\ ServiceOff
    /\ ColdCaches
    /\ exportFiles \in ExportDirs
    /\ stats_df = <<>>
    /\ playlistFile = NoPlaylistFile

NextLoader ==
    \/ LoadAllData

SpecLoader == InitLoader /\ [][NextLoader]_vars

\* the aggregation queries on one event table
InitStats ==
    /\ ServiceOff
    /\ ColdCaches
    /\ exportFiles = <<>>
    /\ stats_df \in EventTables
    /\ playlistFile = NoPlaylistFile

NextStats ==
    \/ Heatmap
    \/ Top

SpecStats == InitStats /\ [][NextStats]_vars

\* the playlist queries on one Playlist1.json
InitPlaylists ==
    /\ ServiceOff
    /\ ColdCaches
    /\ exportFiles = <<>>
    /\ stats_df = <<>>
    /\ playlistFile \in PlaylistFiles

NextPlaylists ==
    \/ GetAllPlaylistTracks
    \/ Overlap
    \/ GetPlaylistNames
    \/ GetPlaylistStats

SpecPlaylists == InitPlaylists /\ [][NextPlaylists]_vars

\* playlists P, Q and R and an excluded one, with tracks in common
SharingFiles ==
    {NoPlaylistFile}
    \cup {PlaylistFile(<<Playlist("P", ip),
                         Playlist("SD/TB - Thanks 4 Sharing",
                                  <<TrackItem("x", "A"), TrackItem("y", "B")>>),
                         Playlist("Q", iq), Playlist("R", ir)>>) :
            ip \in SeqsUpTo(Items, MaxItems),
            iq \in SeqsUpTo({TrackItem("x", "A"), TrackItem("y", "B")}, MaxItems),
            ir \in {<<>>, <<TrackItem("x", "A")>>,
                    <<TrackItem("y", "B"), OtherItem, TrackItem("x", "A")>>}}

\* the queries about tracks on several playlists, on one Playlist1.json
InitSharing ==
    /\ ServiceOff
    /\ ColdCaches
    /\ exportFiles = <<>>
    /\ stats_df = <<>>
    /\ playlistFile \in SharingFiles

NextSharing ==
    \/ Duplicates
    \/ TrackOverlaps

SpecSharing == InitSharing /\ [][NextSharing]_vars

\* plays for the search: names in mixed case, a play without an album name
\* and one without an artist name
SearchEvents ==
    {SearchEvent(31, 1, 3, <<"a", "b">>, <<"B">>, <<"b", "a">>),
     SearchEvent(32, 2, 2, <<"a", "b">>, <<"B">>, <<"b", "a">>),
     SearchEvent(33, 3, 1, <<"A">>, <<"b", "b">>, NoText),
     SearchEvent(34, 4, 4, <<"b">>, NoText, <<"A", "a">>)}

SearchTables == SeqsUpTo(SearchEvents, MaxPlays)

\* the search on one event table
InitSearch ==
    /\ ServiceOff
    /\ ColdCaches
    /\ exportFiles = <<>>
    /\ stats_df \in SearchTables
    /\ playlistFile = NoPlaylistFile

NextSearch ==
    \/ SearchTracks

SpecSearch == InitSearch /\ [][NextSearch]_vars

\* the export directory at the start and after the user replaced the export
DatasetExports == {<<>>, <<<<Song1, Episode>>>>, <<<<Song1>>, <<Song2>>>>}
DatasetPlaylists ==
    {NoPlaylistFile,
     PlaylistFile(<<Playlist("P", <<TrackItem("x", "A")>>)>>),
     PlaylistFile(<<Playlist("P", <<TrackItem("y", "B")>>)>>)}

\* plays for the one-hit-wonder queries: a long play, the same pair under
\* another album, a short play and a second play of it, a long play without
\* an album, and a pair that differs from the first in case only
WonderEvents ==
    {Row(RawEvent(11, 2020, 0, 1, 150000, "x", "A", "k", Null, Null)),
     Row(RawEvent(12, 2020, 0, 2, 150000, "x", "A", "m", Null, Null)),
     Row(RawEvent(13, 2020, 0, 3, 90000, "y", "B", "k", Null, Null)),
     Row(RawEvent(14, 2020, 0, 4, 60000, "y", "B", "k", Null, Null)),
     Row(RawEvent(15, 2020, 0, 5, 150000, "z", "A", Null, Null, Null)),
     Row(RawEvent(16, 2020, 0, 5, 150000, "X", "A", "k", Null, Null))}

WonderTables == SeqsUpTo(WonderEvents, MaxRows)

\* the one-hit-wonder queries on one event table and one Playlist1.json
InitWonders ==
    /\ ServiceOff
    /\ ColdCaches
    /\ exportFiles = <<>>
    /\ stats_df \in WonderTables
    /\ playlistFile \in DatasetPlaylists

NextWonders ==
    \/ OneHitWonders
    \/ OneHitStats
    \/ RenderOneHitWonders

SpecWonders == InitWonders /\ [][NextWonders]_vars

\* the history files are replaced by a new export
EditExport ==
    /\ exportFiles' \in DatasetExports \ {exportFiles}
    /\ d_op' = "env"
    /\ UNCHANGED <<serviceVars, now, playlistFile, lru_all_data, lru_playlists,
                   lru_playlist_tracks, st_data, stats_df, d_ret, d_entry, d_read>>

\* Playlist1.json is replaced
EditPlaylists ==
    /\ playlistFile' \in DatasetPlaylists \ {playlistFile}
    /\ d_op' = "env"
    /\ UNCHANGED <<serviceVars, now, exportFiles, lru_all_data, lru_playlists,
                   lru_playlist_tracks, st_data, stats_df, d_ret, d_entry, d_read>>

\* half a time-to-live passes
Elapse ==
    /\ now < MaxHalfTtls * (DATA_TTL \div 2)
    /\ now' = now + (DATA_TTL \div 2)
    /\ d_op' = "env"
    /\ UNCHANGED <<serviceVars, exportFiles, playlistFile, lru_all_data,
                   lru_playlists, lru_playlist_tracks, st_data, stats_df, d_ret,
                   d_entry, d_read>>

\* the dashboard process: the cached loaders, the files changing under them
InitDataset ==
    /\ ServiceOff
    /\ ColdCaches
    /\ exportFiles \in DatasetExports
    /\ playlistFile \in DatasetPlaylists
    /\ stats_df = <<>>

NextDataset ==
    \/ GetData
    \/ LoadAllData
    \/ GetAllPlaylistTracks
    \/ EditExport
    \/ EditPlaylists
    \/ Elapse

SpecDataset == InitDataset /\ [][NextDataset]_vars

(***************************************************************************)
(* Reading the log.                                                        *)
(***************************************************************************)
\* positions of the log that hold an event of kind o
At(o) == {j \in 1..Len(log) : log[j].op = o}

\* requests of the fetch functions, and the first requests of the batches
Gets == At("get")
FirstGets == {j \in Gets : log[j].attempt = 1}

\* the response was HTTP 429
Is429(r) == ~r.exc /\ r.status = 429

\* the response is a failure: no response, an error status, a malformed body
IsFailure(r) == r.exc \/ r.status >= 400 \/ r.body \in {"not_json", "bad_entry"}

\* the last request made for batch b
LastGetOf(b) ==
    CHOOSE j \in Gets : log[j].batch = b /\ \A k \in Gets : log[k].batch = b => k <= j

\* the identifiers of batch b of the running fetch
IdsOfBatch(b) ==
    {unique_ids[k] : k \in ((b - 1) * 50 + 1)..Min(b * 50, Len(unique_ids))}

\* the keys of the persisted genre cache
KeysOf(file) == IF file.kind = "json_dict" THEN DOMAIN file.data ELSE {}

\* the persisted genre cache
CacheOf(file) == IF file.kind = "json_dict" THEN file.data ELSE EmptyDict

EnrichReturned == op = "enrich" /\ pc = "idle"
FetchReturned == op = "fetch" /\ pc = "idle"

(***************************************************************************)
(* C1.  enrich with a non-empty loaded cache and force_refresh false       *)
(* returns exactly the loaded cache at once, makes no request of any kind  *)
(* (no token request, no lookup) and does not write the cache file.        *)
(***************************************************************************)
C1_CacheHit ==
    (op = "enrich" /\ DOMAIN loaded # {} /\ ~force_refresh) =>
        /\ pc = "idle"
        /\ ret_cache = loaded
        /\ log = <<>>
        /\ genreFile = file0

\* the cache was used although the API was available
C1_Witness ==
    /\ EnrichReturned
    /\ DOMAIN loaded # {}
    /\ ~force_refresh
    /\ REQUESTS_AVAILABLE /\ client_id /\ client_secret
    /\ streaming_df.present
    /\ ret_cache = loaded

(***************************************************************************)
(* C2.  enrich with an empty cache or force_refresh true, when the API is  *)
(* unavailable or get_token returned none: the call returns the cache as   *)
(* loaded, the genre cache file is unchanged and never written, and no     *)
(* track or artist lookup is requested.                                    *)
(***************************************************************************)
C2_NoApiNoToken ==
    (/\ op = "enrich"
     /\ DOMAIN loaded = {} \/ force_refresh
     /\ \/ ~(REQUESTS_AVAILABLE /\ client_id /\ client_secret)
        \/ token = NoneTok) =>
        /\ pc \in {"idle", "get_token", "token_post", "after_token"}
        /\ pc = "idle" => ret_cache = loaded
        /\ genreFile = file0
        /\ Gets = {}
        /\ \A j \in At("write") : log[j].kind # "genre"

\* a forced refresh whose token request failed
C2_Witness ==
    /\ EnrichReturned
    /\ force_refresh
    /\ DOMAIN loaded # {}
    /\ streaming_df.present
    /\ REQUESTS_AVAILABLE /\ client_id /\ client_secret
    /\ token = NoneTok
    /\ At("post") # {}
    /\ ret_cache = loaded

(***************************************************************************)
(* C3.  enrich on the fetch path returns the loaded cache overridden by    *)
(* the freshly built name-to-genres mapping: old keys outside the new      *)
(* mapping keep their value, keys of the new mapping have the new value;   *)
(* the genre cache file holds exactly that mapping when enrich returns.    *)
(***************************************************************************)
\* the call went past the token and had a table
OnFetchPath ==
    /\ EnrichReturned
    /\ DOMAIN loaded = {} \/ force_refresh
    /\ REQUESTS_AVAILABLE /\ client_id /\ client_secret
    /\ token \notin {NoneTok, ""}
    /\ streaming_df.present

\* the mapping built from the two lookups of the call
FreshMapping == BuildResult(results, NameMap(AllArtists(track_artists), EmptyDict), EmptyDict)

C3_MergeAndPersist ==
    OnFetchPath =>
        /\ DOMAIN ret_cache = DOMAIN loaded \cup DOMAIN FreshMapping
        /\ \A k \in DOMAIN FreshMapping : ret_cache[k] = FreshMapping[k]
        /\ \A k \in DOMAIN loaded \ DOMAIN FreshMapping : ret_cache[k] = loaded[k]
        /\ genreFile.kind = "json_dict"
        /\ genreFile.data = ret_cache
        /\ log[Len(log)].op = "write" /\ log[Len(log)].kind = "genre"

\* an old key kept, an old key overwritten with another value, a key added
C3_Witness ==
    /\ OnFetchPath
    /\ \E k \in DOMAIN loaded : k \notin DOMAIN FreshMapping
    /\ \E k \in DOMAIN loaded \cap DOMAIN FreshMapping : loaded[k] # FreshMapping[k]
    /\ \E k \in DOMAIN FreshMapping : k \notin DOMAIN loaded
    /\ genreFile.data = ret_cache

(***************************************************************************)
(* C4.  The persisted genre cache grows monotonically: every key of the    *)
(* genre cache file before an enrich call is a key of it after the call,   *)
(* whatever force_refresh, the API outcome and the readability of the      *)
(* file at load time.                                                      *)
(***************************************************************************)
C4_KeysNeverRemoved ==
    EnrichReturned => KeysOf(file0) \subseteq KeysOf(genreFile)

(***************************************************************************)
(* C5.  Enrichment is idempotent: enrich run twice in a row with the same  *)
(* table, the same force_refresh and the same API responses leaves the     *)
(* persisted and the returned cache as they were after the first run.      *)
(***************************************************************************)
C5_Idempotent ==
    (EnrichReturned /\ again) =>
        /\ CacheOf(genreFile) = CacheOf(prev.file)
        /\ ret_cache = prev.ret

(***************************************************************************)
(* C6.  A fetch function given an identifier list of size n issues         *)
(* exactly ceil(n/50) batches (first requests, retries not counted), each  *)
(* of at most 50 identifiers.  Stated for the calls that can issue a       *)
(* request at all: a non-empty token, the HTTP client present.             *)
(***************************************************************************)
C6_BatchesOfListSize ==
    (FetchReturned /\ token \notin {NoneTok, ""} /\ REQUESTS_AVAILABLE) =>
        /\ Cardinality(FirstGets) = CeilDiv(Len(ids_arg), 50)
        /\ \A j \in Gets : log[j].size <= 50

\* C6 as amended: with a non-empty token and the HTTP client present the
\* batches number ceil(u/50), u the number of distinct non-empty identifiers
\* of the list, each of at most 50 identifiers; otherwise none is issued.
C6_BatchesOfDistinctIds ==
    FetchReturned =>
        LET u == Cardinality({ids_arg[j] : j \in 1..Len(ids_arg)} \ {0})
        IN  /\ Cardinality(FirstGets) =
                  IF token \notin {NoneTok, ""} /\ REQUESTS_AVAILABLE
                  THEN CeilDiv(u, 50) ELSE 0
            /\ \A j \in Gets : log[j].size >= 1 /\ log[j].size <= 50
            /\ {log[j].batch : j \in FirstGets} = 1..Cardinality(FirstGets)

\* three batches for 101 distinct identifiers in a longer list
C6_Witness ==
    /\ FetchReturned
    /\ Len(ids_arg) > Len(unique_ids)
    /\ Len(unique_ids) = 2 * 50 + 1
    /\ Cardinality(FirstGets) = 3
    /\ \E j \in Gets : log[j].size = 50
    /\ \E j \in Gets : log[j].size = 1

C8_FailedBatchContributesNothing ==
    (FetchReturned /\ Gets # {}) =>
        /\ {log[j].batch : j \in FirstGets} = 1..CeilDiv(Len(unique_ids), 50)
        /\ \A b \in 1..CeilDiv(Len(unique_ids), 50) :
              LET r == log[LastGetOf(b)].resp
              IN  /\ IsFailure(r) => IdsOfBatch(b) \cap OrdKeys(results) = {}
                  /\ (~IsFailure(r) /\ r.body = "full")
                        => IdsOfBatch(b) \subseteq OrdKeys(results)

(***************************************************************************)
(* C9.  Request pacing: between the request of a batch and the request of  *)
(* the next batch of the same fetch call the inter-batch delay elapses,    *)
(* whatever the outcome of the earlier batch; no delay follows the last    *)
(* batch.                                                                  *)
(***************************************************************************)
C9_DelayBetweenBatches ==
    /\ \A j \in FirstGets :
          log[j].batch > 1 => (log[j - 1].op = "sleep" /\ log[j - 1].ms = 100)
    /\ (FetchReturned /\ log # <<>>) => log[Len(log)].op # "sleep"

(***************************************************************************)
(* C10.  get_token: whenever a persisted token record with                 *)
(* now < expires_at exists, get_token returns its access_token and issues  *)
(* no token request, whether or not credentials or the HTTP client are     *)
(* present.                                                                *)
(***************************************************************************)
\* get_access_token was called directly and is past its cache lookup
GetTokenPastLookup == op = "get_token" /\ pc # "get_token"

HadValidRecord == tokenFile0.kind = "record" /\ now < tokenFile0.expires_at

C10_ValidRecordAlwaysReturned ==
    (GetTokenPastLookup /\ HadValidRecord) =>
        /\ pc = "idle"
        /\ token = tokenFile0.access_token
        /\ At("post") = {}

\* C10 as amended: with the API available and the record read, get_token
\* returns the record's access_token and issues no token request; with the
\* API unavailable it returns none, and issues no token request either.
C10_ValidRecordReturnedWhenAvailable ==
    (GetTokenPastLookup /\ HadValidRecord) =>
        IF REQUESTS_AVAILABLE /\ client_id /\ client_secret
        THEN At("ioerror") = {} =>
                /\ pc = "idle"
                /\ token = tokenFile0.access_token
                /\ log = <<>>
                /\ tokenFile = tokenFile0
        ELSE /\ pc = "idle"
             /\ token = NoneTok
             /\ log = <<>>
             /\ tokenFile = tokenFile0

\* a valid record returned without a request
C10_Witness ==
    /\ op = "get_token"
    /\ pc = "idle"
    /\ HadValidRecord
    /\ REQUESTS_AVAILABLE /\ client_id /\ client_secret
    /\ token = "t0"
    /\ log = <<>>

(***************************************************************************)
(* C11.  Token validity: a token persisted after a successful request at   *)
(* time t with server lifetime L has expires_at = t + L - 60 seconds, and  *)
(* get_token never returns a token taken from the token cache at a time    *)
(* now >= expires_at of that record.                                       *)
(***************************************************************************)
\* the step in which get_access_token leaves its cache lookup
LookupStep == pc = "get_token" /\ pc' # pc
\* the step in which the token request is answered
PostStep == pc = "token_post" /\ pc' # pc

C11_TokenValidity ==
    [][/\ (PostStep /\ token' # NoneTok) =>
            LET L == log'[Len(log') - 1].resp.expires_in
            IN  /\ log'[Len(log')] = WriteEvent("token")
                /\ tokenFile'.kind = "record"
                /\ tokenFile'.access_token = token'
                /\ L # Absent => tokenFile'.expires_at = now + L - 60
       /\ (LookupStep /\ token' # NoneTok) =>
            /\ tokenFile.kind = "record"
            /\ token' = tokenFile.access_token
            /\ now < tokenFile.expires_at]_vars

\* a token this program persisted one second ago with a lifetime of 62 s is
\* returned from the cache one second before its expires_at
C11_Witness ==
    /\ op = "get_token"
    /\ pc = "idle"
    /\ log = <<>>
    /\ token = "t2"
    /\ tokenFile = TokenRecord("t2", now + 1)
    /\ now >= 1

(***************************************************************************)
(* C12.  Token lifecycle with the API available: a get_token call that     *)
(* reads a persisted token record before its expires_at returns that       *)
(* record's token without a request; a call at or after expires_at issues  *)
(* exactly one token request, and on its success the service holds the     *)
(* new token, which replaces the persisted record.                         *)
(***************************************************************************)
HoldsToken == tokenFile.kind = "record" /\ tokenFile.access_token # NoneTok

FailedPosts ==
    {j \in At("post") : \/ log[j].resp.exc
                        \/ log[j].resp.status >= 400
                        \/ log[j].resp.token = NoneTok}

C13_FailureReturnsNone ==
    (op = "get_token" /\ FailedPosts # {}) =>
        /\ pc = "idle"
        /\ token = NoneTok
        /\ tokenFile = tokenFile0
        /\ At("write") = {}
        /\ At("raise") = {}

\* each kind of failure, over an expired record that stays as it was
C13_Witness ==
    /\ op = "get_token"
    /\ pc = "idle"
    /\ tokenFile0 = TokenRecord("t0", 0)
    /\ tokenFile = tokenFile0
    /\ token = NoneTok
    /\ \E j \in FailedPosts : log[j].resp.status = 401

(***************************************************************************)
(* C14.  Cache corruption is never surfaced: for every malformed content   *)
(* of the token cache file (not parseable, of the wrong shape such as a    *)
(* list, a record lacking access_token, an unparseable expires_at),        *)
(* loading yields an absent token and get_token returns without raising.   *)
(***************************************************************************)
Malformed(file) ==
    \/ file.kind \in {"corrupt", "list", "bad_date", "no_date"}
    \/ file.kind = "record" /\ file.access_token = NoneTok

C14_CorruptionNeverSurfaced ==
    (op = "get_token" /\ pc = "idle" /\ Malformed(tokenFile0)) =>
        /\ At("raise") = {}
        /\ token # NoneTok => At("post") # {}

(***************************************************************************)
(* C15.  Unconfigured state: while a credential or the HTTP client is      *)
(* absent, no operation (get_token, fetch_genres, fetch_track_artists,     *)
(* enrich) attempts a network request, whatever its arguments.             *)
(***************************************************************************)
C15_NoNetworkWhenUnconfigured ==
    ~(REQUESTS_AVAILABLE /\ client_id /\ client_secret) =>
        /\ At("get") = {}
        /\ At("post") = {}

(***************************************************************************)
(* C16.  Dataset Cache time-to-live: the PlayEvent table is memoized with  *)
(* a fixed TTL; an access before expiry returns the memoized table without *)
(* loading, and the first access after expiry re-reads the export files,   *)
(* so a change made to the files before that access is visible in the      *)
(* table it returns.                                                       *)
(***************************************************************************)
C16_ReloadAfterExpiry ==
    /\ (d_op = "get_data" /\ d_entry = "live") =>
            /\ ~d_read
            /\ d_ret.table = st_data.value
    /\ (d_op = "get_data" /\ d_entry = "expired") =>
            d_ret = load_all_data(exportFiles)

(***************************************************************************)
(* C17.  Music-only invariant: every event of the table load_all_data      *)
(* returns has a present track and absent episode_name and                 *)
(* audiobook_title, and every raw event satisfying that predicate is       *)
(* retained, in filename-then-within-file order.                           *)
(***************************************************************************)
\* the raw records file after file, each in its own order
RECURSIVE RawInOrder(_)
RawInOrder(files) ==
    IF files = <<>> THEN <<>> ELSE Head(files) \o RawInOrder(Tail(files))

IdsOf(rows) == [j \in 1..Len(rows) |-> rows[j].id]

C17_MusicOnly ==
    (d_op = "load_all_data" /\ d_ret.raises = "") =>
        /\ \A j \in 1..Len(d_ret.table) :
              /\ d_ret.table[j].track # Null
              /\ d_ret.table[j].episode_name = Null
              /\ d_ret.table[j].audiobook_title = Null
        /\ IdsOf(d_ret.table) =
              IdsOf(SelectSeq(RawInOrder(exportFiles),
                              LAMBDA r : /\ r.track # Null
                                         /\ r.episode_name = Null
                                         /\ r.audiobook_title = Null))

\* two files; the audiobook chapter and the episode are gone, the songs of
\* the second file follow the song of the first
C17_Witness ==
    /\ d_op = "load_all_data"
    /\ d_ret.raises = ""
    /\ exportFiles = <<<<Song2, Chapter>>, <<Song1>>>>
    /\ IdsOf(d_ret.table) = <<2, 1>>

(***************************************************************************)
(* C18.  heatmap: for every input event table the result has exactly 7     *)
(* rows (day_of_week 0..6) and 24 columns (hour 0..23), cells without      *)
(* events are 0, and the sum of all cells equals the number of input rows. *)
(***************************************************************************)
EventsAt(d, h) ==
    Cardinality({j \in 1..Len(stats_df) :
                    stats_df[j].day_of_week = d /\ stats_df[j].hour = h})

C18_HeatmapDense ==
    d_op = "heatmap" =>
        /\ d_ret.index = 0..6
        /\ d_ret.columns = 0..23
        /\ \A c \in DOMAIN d_ret.values : d_ret.values[c] = EventsAt(c[1], c[2])
        /\ SumOver(DOMAIN d_ret.values, d_ret.values) = Len(stats_df)

(***************************************************************************)
(* C19.  top-N (artists, tracks, albums; by play_count or total_minutes):  *)
(* the result has at most `limit` rows, is sorted by the requested metric  *)
(* in descending order, and groups with equal metric appear in the order   *)
(* of their first occurrence in the input table.                           *)
(***************************************************************************)
\* the metric the call asked for
Metric(row) ==
    IF d_ret.kind = "albums" \/ d_ret.by = "plays"
    THEN row.play_count ELSE row.total_minutes

\* the first row of the input table that belongs to the group
FirstOccurrence(key) ==
    CHOOSE j \in 1..Len(stats_df) :
        /\ KeyOf(d_ret.kind, stats_df[j]) = key
        /\ \A k \in 1..(j - 1) : KeyOf(d_ret.kind, stats_df[k]) # key

C20_OverlapSymmetric ==
    d_op = "overlap" =>
        /\ d_ret.ab.empty = d_ret.ba.empty
        /\ ~d_ret.ab.empty =>
              /\ d_ret.ab.shared_artists = d_ret.ba.shared_artists
              /\ d_ret.ab.shared_tracks = d_ret.ba.shared_tracks
              /\ d_ret.ab.shared_artist_count = d_ret.ba.shared_artist_count
              /\ d_ret.ab.shared_track_count = d_ret.ba.shared_track_count
              /\ d_ret.ab.p1_track_count = d_ret.ba.p2_track_count
              /\ d_ret.ab.p2_track_count = d_ret.ba.p1_track_count
              /\ d_ret.ab.p1_artist_count = d_ret.ba.p2_artist_count
              /\ d_ret.ab.p2_artist_count = d_ret.ba.p1_artist_count

\* two different playlists of different sizes that share an artist but
\* not every artist, and a track
C20_Witness ==
    /\ d_op = "overlap"
    /\ d_ret.a = "P"
    /\ d_ret.b = "Q"
    /\ ~d_ret.ab.empty
    /\ d_ret.ab.p1_track_count = 2
    /\ d_ret.ab.p2_track_count = 1
    /\ d_ret.ab.p1_artist_count = 2
    /\ d_ret.ab.shared_artist_count = 1
    /\ d_ret.ab.shared_track_count = 1

(***************************************************************************)
(* C21.  one_hit_wonders, with a limit no smaller than the result: a       *)
(* (track, artist) pair is returned if and only if it has exactly one play *)
(* event in the whole event table, that event has ms_played >= 120000, and *)
(* the exact, case-sensitive pair is not in the set of playlist pairs;     *)
(* each qualifying pair is returned once.                                  *)
(***************************************************************************)
\* the plays of a pair in the event table
PlaysOf(pair) ==
    {j \in 1..Len(stats_df) : <<stats_df[j].track, stats_df[j].artist>> = pair}

\* the pairs of the playlist table the call used
PlaylistPairs ==
    {<<lru_playlist_tracks.value[j].track, lru_playlist_tracks.value[j].artist>> :
        j \in 1..Len(lru_playlist_tracks.value)}

\* played once, for two minutes or more, and on no playlist
Qualifies(pair) ==
    /\ Cardinality(PlaysOf(pair)) = 1
    /\ \A j \in PlaysOf(pair) : stats_df[j].ms_played >= 120000
    /\ pair \notin PlaylistPairs

\* the rows of a result that carry the pair
RowsWith(rows, pair) ==
    {j \in 1..Len(rows) : <<rows[j].track, rows[j].artist>> = pair}

\* the pairs of the event table
PlayedPairs ==
    {<<stats_df[j].track, stats_df[j].artist>> : j \in 1..Len(stats_df)}

C21_OneHitWonders ==
    (d_op = "one_hit_wonders" /\ d_ret.limit >= Len(stats_df)) =>
        /\ \A j \in 1..Len(d_ret.rows) :
              <<d_ret.rows[j].track, d_ret.rows[j].artist>> \in PlayedPairs
        /\ \A pair \in PlayedPairs :
              /\ (RowsWith(d_ret.rows, pair) # {}) <=> Qualifies(pair)
              /\ Cardinality(RowsWith(d_ret.rows, pair)) <= 1

(***************************************************************************)
(* C22.  one_hit_wonder_stats: one_hit_count <= total_unique_tracks, the   *)
(* count of unique (track, artist) pairs with ms_played >= 120000, for     *)
(* every event table and playlist set, and one_hit_percent is 0 when that  *)
(* total is 0.                                                             *)
(***************************************************************************)
\* ms_played of a pair, summed over its plays
TotalMs(pair) ==
    SumOver(PlaysOf(pair), [j \in 1..Len(stats_df) |-> stats_df[j].ms_played])

C22_OneHitCountBounded ==
    d_op = "one_hit_stats" =>
        /\ d_ret.total_unique_tracks =
              Cardinality({pair \in PlayedPairs : TotalMs(pair) >= 120000})
        /\ d_ret.one_hit_count <= d_ret.total_unique_tracks
        /\ d_ret.total_unique_tracks = 0 => d_ret.one_hit_percent = 0

\* of two pairs with two minutes or more, one is a one-hit wonder; a third
\* pair was played for less
C22_Witness ==
    /\ d_op = "one_hit_stats"
    /\ d_ret.total_unique_tracks = 2
    /\ d_ret.one_hit_count = 1
    /\ \E pair \in PlayedPairs : TotalMs(pair) < 120000

(***************************************************************************)
(* C28.  The one-hit-wonder list and the one-hit-wonder statistics agree:  *)
(* for every event table and playlist set, the number of rows of           *)
(* one_hit_wonders with a non-truncating limit equals one_hit_count of     *)
(* one_hit_wonder_stats, including when the same (track, artist) pair was  *)
(* played under different albums.                                          *)
(***************************************************************************)
C28_ListAgreesWithStats ==
    (d_op = "render_one_hit_wonders" /\ d_ret.limit >= Len(stats_df)) =>
        Len(d_ret.wonders) = d_ret.stats.one_hit_count

(***************************************************************************)
(* C23.  duplicates: the result is exactly the (track, artist) pairs that  *)
(* occur in more than one distinct playlist, each with playlist_count and  *)
(* the set of those playlists, ordered by playlist_count descending; a     *)
(* pair repeated inside one playlist only is not reported.                 *)
(***************************************************************************)
\* the playlist table the last call used
PlaylistTable == lru_playlist_tracks.value

\* the pairs of the playlist table
TablePairs ==
    {<<PlaylistTable[j].track, PlaylistTable[j].artist>> : j \in 1..Len(PlaylistTable)}

\* the playlists in which a pair occurs
PlaylistsWith(pair) ==
    {PlaylistTable[j].playlist :
        j \in {n \in 1..Len(PlaylistTable) :
                 <<PlaylistTable[n].track, PlaylistTable[n].artist>> = pair}}

\* a result has one row at most for a pair, and only pairs of the table
OneRowPerPair(rows) ==
    /\ \A j \in 1..Len(rows) : <<rows[j].track, rows[j].artist>> \in TablePairs
    /\ \A pair \in TablePairs : Cardinality(RowsWith(rows, pair)) <= 1

C23_Duplicates ==
    d_op = "duplicates" =>
        /\ OneRowPerPair(d_ret.rows)
        /\ \A pair \in TablePairs :
              (RowsWith(d_ret.rows, pair) # {}) <=> Cardinality(PlaylistsWith(pair)) > 1
        /\ \A j \in 1..Len(d_ret.rows) :
              LET pair == <<d_ret.rows[j].track, d_ret.rows[j].artist>>
              IN  /\ d_ret.rows[j].playlists = PlaylistsWith(pair)
                  /\ d_ret.rows[j].playlist_count = Cardinality(PlaylistsWith(pair))
        /\ \A a, b \in 1..Len(d_ret.rows) :
              a < b => d_ret.rows[a].playlist_count >= d_ret.rows[b].playlist_count

\* a pair on two playlists is reported while another pair, twice on one
\* playlist and on no other, is not
C23_Witness ==
    /\ d_op = "duplicates"
    /\ Len(d_ret.rows) >= 1
    /\ \E pair \in TablePairs :
          /\ Cardinality(PlaylistsWith(pair)) = 1
          /\ Cardinality({j \in 1..Len(PlaylistTable) :
                 <<PlaylistTable[j].track, PlaylistTable[j].artist>> = pair}) = 2
          /\ RowsWith(d_ret.rows, pair) = {}

(***************************************************************************)
(* C24.  Playlist Store Loader: a playlist whose name is on the exclusion  *)
(* list contributes no PlaylistEntry, no playlist summary, and is absent   *)
(* from the playlist name list; every other playlist contributes one       *)
(* PlaylistEntry per item that has a track, in item order, and items       *)
(* without a track are skipped.                                            *)
(***************************************************************************)
\* the playlists of the file that are not on the exclusion list, in order
KeptPlaylists ==
    SelectSeq(playlistFile.playlists, LAMBDA p : p.name \notin EXCLUDED_PLAYLISTS)

\* playlist a of those, item b: the items that have a track
EntryItems ==
    UNION {{<<a, b>> : b \in {n \in 1..Len(KeptPlaylists[a].items) :
                                  KeptPlaylists[a].items[n].track}}
           : a \in 1..Len(KeptPlaylists)}

\* the items before an item, in playlist order and item order
EntriesBefore(q) ==
    {r \in EntryItems : r[1] < q[1] \/ (r[1] = q[1] /\ r[2] < q[2])}

C24_ExcludedPlaylists ==
    /\ d_op = "get_all_playlist_tracks" =>
          /\ Len(d_ret.table) = Cardinality(EntryItems)
          /\ \A q \in EntryItems :
                LET row == d_ret.table[Cardinality(EntriesBefore(q)) + 1]
                    item == KeptPlaylists[q[1]].items[q[2]]
                IN  /\ row.playlist = KeptPlaylists[q[1]].name
                    /\ row.track = item.trackName
                    /\ row.artist = item.artistName
    /\ d_op = "get_playlist_names" =>
          /\ Len(d_ret.names) = Len(KeptPlaylists)
          /\ \A j \in 1..Len(KeptPlaylists) : d_ret.names[j] = KeptPlaylists[j].name
    /\ d_op = "get_playlist_stats" =>
          /\ Len(d_ret.rows) = Len(KeptPlaylists)
          /\ \A j \in 1..Len(KeptPlaylists) :
                \E k \in 1..Len(d_ret.rows) :
                    /\ d_ret.rows[k].seq = j
                    /\ d_ret.rows[k].name = KeptPlaylists[j].name
                    /\ d_ret.rows[k].track_count =
                          Cardinality({q \in EntryItems : q[1] = j})

\* the table of a file whose excluded playlist has a track and whose first
\* playlist has an item without a track before one with a track
C24_Witness ==
    /\ d_op = "get_all_playlist_tracks"
    /\ \E j \in 1..Len(playlistFile.playlists) :
          /\ playlistFile.playlists[j].name \in EXCLUDED_PLAYLISTS
          /\ \E k \in 1..Len(playlistFile.playlists[j].items) :
                playlistFile.playlists[j].items[k].track
    /\ Len(playlistFile.playlists[1].items) = 2
    /\ ~playlistFile.playlists[1].items[1].track
    /\ playlistFile.playlists[1].items[2].track
    /\ Len(d_ret.table) >= 2

(***************************************************************************)
(* C25.  track_overlaps(playlist): the result is exactly the distinct      *)
(* (track, artist) pairs of the given playlist that also occur in at least *)
(* one other playlist; other_playlists is the set of those other playlists *)
(* (never the given one) and overlap_count is its size; ordered by         *)
(* overlap_count descending.                                               *)
(***************************************************************************)
\* the pairs of a playlist
PairsIn(playlist_name) ==
    {<<PlaylistTable[j].track, PlaylistTable[j].artist>> :
        j \in {n \in 1..Len(PlaylistTable) : PlaylistTable[n].playlist = playlist_name}}

C25_TrackOverlaps ==
    d_op = "track_overlaps" =>
        /\ OneRowPerPair(d_ret.rows)
        /\ \A pair \in TablePairs :
              (RowsWith(d_ret.rows, pair) # {}) <=>
                  /\ pair \in PairsIn(d_ret.playlist_name)
                  /\ PlaylistsWith(pair) \ {d_ret.playlist_name} # {}
        /\ \A j \in 1..Len(d_ret.rows) :
              LET pair == <<d_ret.rows[j].track, d_ret.rows[j].artist>>
              IN  /\ d_ret.rows[j].other_playlists =
                        PlaylistsWith(pair) \ {d_ret.playlist_name}
                  /\ d_ret.rows[j].overlap_count =
                        Cardinality(d_ret.rows[j].other_playlists)
        /\ \A a, b \in 1..Len(d_ret.rows) :
              a < b => d_ret.rows[a].overlap_count >= d_ret.rows[b].overlap_count

\* of the pairs of playlist P one is on two other playlists, one on one
\* other playlist
C25_Witness ==
    /\ d_op = "track_overlaps"
    /\ d_ret.playlist_name = "P"
    /\ Len(d_ret.rows) = 2
    /\ d_ret.rows[1].overlap_count = 2
    /\ d_ret.rows[2].overlap_count = 1

(***************************************************************************)
(* C29.  track_overlaps agrees with duplicates: for every playlist p, a    *)
(* (track, artist) pair is a row of track_overlaps(p) if and only if it is *)
(* a row of duplicates() whose playlist set contains p, and its            *)
(* overlap_count equals that row's playlist_count minus 1.                 *)
(***************************************************************************)
\* the rows of duplicates() on the same table that carry the pair
DuplicateRowsOf(pair) ==
    {row \in get_track_duplicates(PlaylistTable) : <<row.track, row.artist>> = pair}

C29_OverlapsAgreeWithDuplicates ==
    d_op = "track_overlaps" =>
        /\ \A j \in 1..Len(d_ret.rows) :
              \E row \in DuplicateRowsOf(<<d_ret.rows[j].track, d_ret.rows[j].artist>>) :
                  /\ d_ret.playlist_name \in row.playlists
                  /\ d_ret.rows[j].overlap_count = row.playlist_count - 1
        /\ \A row \in get_track_duplicates(PlaylistTable) :
              d_ret.playlist_name \in row.playlists =>
                  RowsWith(d_ret.rows, <<row.track, row.artist>>) # {}

\* playlist Q shares one pair with two playlists; another pair of Q is on
\* no other playlist and is no row of either result
C29_Witness ==
    /\ d_op = "track_overlaps"
    /\ d_ret.playlist_name = "Q"
    /\ Len(d_ret.rows) = 1
    /\ d_ret.rows[1].overlap_count = 2
    /\ Cardinality(PairsIn("Q")) = 2
    /\ Cardinality(get_track_duplicates(PlaylistTable)) = 1

(***************************************************************************)
(* C26.  search, track scope: an event is counted in the result if and     *)
(* only if the lower-cased query is a substring of its lower-cased track,  *)
(* artist or album (an absent artist or album simply does not match); with *)
(* a limit that does not truncate, the play_count values of the (track,    *)
(* artist, album) groups sum to the number of matching events, and a query *)
(* with no match yields an empty result, not an error.                     *)
(***************************************************************************)
\* q is a substring of text
SubstringOf(q, text) ==
    \E off \in 0..(Len(text) - Len(q)) : \A k \in 1..Len(q) : q[k] = text[off + k]

\* the lower-cased query is a substring of the lower-cased name
NameMatches(name, query) ==
    name # <<"<null>">> /\ SubstringOf(Lower(query), Lower(name))

\* the events of the table that match the query
MatchingEvents(query) ==
    {j \in 1..Len(stats_df) :
        \/ NameMatches(stats_df[j].track, query)
        \/ NameMatches(stats_df[j].artist, query)
        \/ NameMatches(stats_df[j].album, query)}

C26_SearchTrackScope ==
    d_op = "search_tracks" =>
        /\ d_ret.raises = ""
        /\ MatchingEvents(d_ret.query) = {} => d_ret.rows = <<>>
        /\ d_ret.limit >= Len(stats_df) =>
              /\ SumOver(1..Len(d_ret.rows),
                         [j \in 1..Len(d_ret.rows) |-> d_ret.rows[j].play_count])
                    = Cardinality(MatchingEvents(d_ret.query))
              /\ \A j \in 1..Len(d_ret.rows) :
                    d_ret.rows[j].play_count =
                        Cardinality({n \in MatchingEvents(d_ret.query) :
                            /\ stats_df[n].track = d_ret.rows[j].track
                            /\ stats_df[n].artist = d_ret.rows[j].artist
                            /\ stats_df[n].album = d_ret.rows[j].album})

(***************************************************************************)
(* C30.  enrich called without a streaming table never writes the genre    *)
(* cache file and returns the loaded cache unchanged, whatever             *)
(* force_refresh is and whether or not a token was obtained; the only      *)
(* network request it can make is the token request.                       *)
(***************************************************************************)
C30_NoTableFrame ==
    (op = "enrich" /\ ~streaming_df.present) =>
        /\ genreFile = file0
        /\ \A j \in At("write") : log[j].kind # "genre"
        /\ Gets = {}
        /\ \A j \in At("post") : log[j].kind = "token"
        /\ pc = "idle" => (At("raise") = {} /\ ret_cache = loaded)

(***************************************************************************)
(* C27.  enrich on the fetch path: every distinct track identifier that    *)
(* can be parsed from a URI of the streaming table is sent in some         *)
(* track-artists batch, every artist identifier returned for those tracks  *)
(* is sent in some artist-genres batch, and URIs that are not of the       *)
(* scheme:track:id shape are skipped without error.                        *)
(***************************************************************************)
\* the URI has the shape spotify:track:<id> with an id that is not empty
WellShaped(uri) ==
    /\ ~uri.na
    /\ uri.head = <<"spotify", "track">>
    /\ Len(uri.tail) >= 1
    /\ uri.tail[Len(uri.tail)] # 0

\* the places of the table where such a URI occurs for the first time
FirstPlaces ==
    {j \in 1..Len(streaming_df.uris) :
        /\ WellShaped(streaming_df.uris[j])
        /\ \A k \in 1..(j - 1) : streaming_df.uris[k] # streaming_df.uris[j]}

\* the track identifiers at a set of places
IdsAt(places) ==
    {streaming_df.uris[j].tail[Len(streaming_df.uris[j].tail)] : j \in places}

\* the first n of a set of places
FirstOf(places, n) == {p \in places : Cardinality({q \in places : q <= p}) <= n}

\* the identifiers of the requests of one kind the fetch call in progress,
\* or the one that has just returned, made
SentIds(kind) ==
    UNION {IdsOfBatch(log[j].batch) : j \in {n \in Gets : log[n].kind = kind}}

\* the track lookup of an enrich call has returned
TracksLookedUp == op = "enrich" /\ pc = "after_tracks"

\* the genre lookup of an enrich call has returned
ArtistsLookedUp == op = "enrich" /\ pc = "after_artists"

\* the artist identifiers the track lookup returned
ReturnedArtistIds ==
    UNION {{track_artists[j].val[k].id : k \in 1..Len(track_artists[j].val)}
           : j \in 1..Len(track_artists)}

C27_AllIdsLookedUp ==
    /\ op = "enrich" => At("raise") = {}
    /\ TracksLookedUp => SentIds("tracks") = IdsAt(FirstPlaces)
    /\ ArtistsLookedUp => ReturnedArtistIds \subseteq SentIds("artists")

\* C27 as the code has it: the track identifiers looked up are the first
\* 1000 parsed from the distinct URIs of the table, in order of first
\* appearance, and no later one; every artist identifier returned for
\* those tracks is sent in some artist-genres batch; other URIs are skipped
\* without error
C27_FirstThousandLookedUp ==
    /\ op = "enrich" => At("raise") = {}
    /\ TracksLookedUp => SentIds("tracks") = IdsAt(FirstOf(FirstPlaces, 1000))
    /\ ArtistsLookedUp => ReturnedArtistIds \subseteq SentIds("artists")

\* the track lookup of a table with more than 1000 tracks has returned
C27_Witness ==
    /\ TracksLookedUp
    /\ Cardinality(FirstPlaces) > 1000
    /\ Cardinality(SentIds("tracks")) = 1000
    /\ Cardinality({j \in Gets : log[j].kind = "tracks"}) = 20
    /\ \E j \in 1..Len(streaming_df.uris) : ~WellShaped(streaming_df.uris[j])

====
